---- MODULE Spec2Model ----
(***************************************************************************)
(* debcomprt: the chroot lifecycle of debcomprt (mountChrootFileSystems,   *)
(* unMountChrootFileSystems, Chroot and the exit closure it returns).      *)
(*                                                                         *)
(* The process runs one of two drivers:                                    *)
(*   "session": a caller (createComprt, runInteractiveChroot) calls        *)
(*              Chroot(target) and, when it succeeded, the exit closure;   *)
(*   "pair":    mountChrootFileSystems(D, target) followed by              *)
(*              unMountChrootFileSystems on the returned list, as the      *)
(*              tests of the repository do.                                *)
(* A session is started by the caller itself, as the tests do, or by main   *)
(* (parseCmdArgs, the uid test, then the chroot or the create command).     *)
(* A third driver, "unmount", calls unMountChrootFileSystems(D, target) on  *)
(* a list of its own; it runs under SpecUnmount, and under                  *)
(* SpecUnmountShared with other processes unmounting meanwhile.             *)
(* A fourth, "locate", calls locateField on a file; it runs under           *)
(* SpecLocate. "copy" and "includes" call copy and getComprtIncludes        *)
(* (SpecCopy, SpecIncludes); "login" runs the chroot command on the passwd  *)
(* file createComprt left (SpecLogin). Strings that the code takes apart    *)
(* are sequences of symbols, one character each or one name each.           *)
(* Every system call is one step; its result is chosen by the environment  *)
(* among the results the mount table and the process root allow, plus a    *)
(* bounded number of injected failures.                                    *)
(***************************************************************************)
EXTENDS Integers, Sequences, FiniteSets, TLC

\* ---------------------------------------------------------------- bounds
\* longest device list of the "pair" driver
MaxLen == 2
\* stale mounts already stacked on one mount point before the program starts
MaxPre == 1
\* injected system-call failures in one run
MaxFaults == 3
\* unmount attempts recorded in one run (the retry loop of phase 1 has no
\* bound of its own)
MaxAttempts == 7
\* binds stacked on the one mount point of the "stuck" driver
MaxStack == 3

\* ------------------------------------------------------------- constants
\* Chroot's devicesToMount
CanonicalDevices == <<"/sys", "/proc", "/dev", "/dev/pts">>

DeviceSet == {CanonicalDevices[i] : i \in 1..Len(CanonicalDevices)}

\* error values (Go's nil and the errno classes the code tells apart)
Nil == "nil"
EBUSY == "EBUSY"
EINVAL == "EINVAL"
\* any errno that is neither EBUSY nor EINVAL (EPERM, ENOENT, ENOMEM, ...)
EOTHER == "EOTHER"

\* fmt.Errorf("%s: unable to unmount %v", progname, filesys)
UnableToUnmount(filesys) == "unable to unmount " \o filesys

\* the uid debcomprt has to run as, and the uid of the default comprt user
rootUid == 0
defaultComprtUid == 1224
\* the login name is one symbol of the passwd line it stands in
defaultComprtUserName == <<"debcomprt">>
noAlias == "none"

\* strings.Join([]string{progname, ": must be ran as root!"}, "")
MustBeRoot == "debcomprt: must be ran as root!"

VARIABLES
    mode,               \* "session" | "pair" | "unmount" | "stuck" | "locate" | "copy" | "includes" | "login"
    pc,                 \* position in the code
    caller,             \* who called unMountChrootFileSystems
    targetExists,       \* the target directory exists
    targetAbs,          \* target is an absolute path
    procRoot,           \* root directory of the process: "hostRoot" | "targetRoot" | "nestedRoot"
    cwd,                \* working directory: "workDir" or one of the roots
    returnDir,          \* Chroot's returnDir ("" before os.Getwd)
    root,               \* directory Chroot's handle root refers to ("" before os.Open)
    rootOpen,           \* that handle is open
    own,                \* binds made by this run still in place, per device
    pre,                \* stale mounts under them, per device
    dirs,               \* devices whose mount point directory exists in target
    devicesToMount,     \* the caller's device list (an array shared with callees)
    fileSystemsMounted, \* list built by mountChrootFileSystems
    mIdx,               \* loop index of mountChrootFileSystems
    mErr,               \* error returned by mountChrootFileSystems
    errs,               \* Chroot's named result errs
    uList,              \* unMountChrootFileSystems' devicesToMount after reverse
    uIdx,               \* index of phase 1
    retries,            \* retries of the device in hand
    fileSystemsUnmountBacklog,
    bIdx,               \* index of phase 2
    uErr,               \* error returned by unMountChrootFileSystems
    exitErr,            \* error returned by the exit closure ("" before it returns)
    faults,             \* injected failures so far
    attempts,           \* history: every syscall.Unmount made, in order
    sleeps,             \* history: every time.Sleep made, in order
    mountLog,           \* history: every successful syscall.Mount, in order
    cwd0, pre0, dirs0, D0,  \* history: values at program start
    reentry,            \* a second Chroot made inside the session: "none" | "failed" | "entered"
    nested,             \* binds made by that second Chroot
    markers,            \* root directories under which /marker was created
    exitCalls,          \* history: calls of the exit closure
    callerErrs,         \* named result errs of createComprt / runInteractiveChroot
    lfFile,             \* locateField: the lines of the file at fPath
    lfOpens,            \* locateField: os.Open(fPath) succeeds
    lfMatchIndex,       \* locateField: matchIndex
    lfReturnIndex,      \* locateField: returnIndex
    lfMatch,            \* locateField: matchRegex
    lfLine,             \* locateField: lines the scanner has delivered
    lfOut,              \* locateField: the returned value and error, or the panic
    cpSrc,              \* copy: content of the file at src (NoFile: it cannot be opened)
    cpDest,             \* copy: content of the file at dest (NoFile: there is none)
    cpPos,              \* copy: bytes io.Copy has written
    cpErr,              \* copy: the error returned
    cpSrc0, cpDest0,    \* history: the two files before the call
    giFile,             \* getComprtIncludes: the bytes of the includes file
    giOpens,            \* getComprtIncludes: os.Open(comprtIncludesPath) succeeds
    giRest,             \* getComprtIncludes: bytes the scanner has not delivered yet
    includePkgs,        \* getComprtIncludes: *includePkgs
    includePkgs0,       \* history: *includePkgs before the call
    giErr,              \* getComprtIncludes: the error returned
    uid,                \* main: user.Uid of the user the program runs as
    osArgs,             \* main: os.Args after the program name (<<>>: main is not run)
    command,            \* main: pconfs.command ("" before parseCmdArgs sets it)
    alias,              \* main: pconfs.alias
    panic,              \* main: what log.Panic was called with ("" while it was not)
    effects,            \* history: what the create command has done outside the chroot
    loginName           \* runInteractiveChroot: defaultComprtUsername, the name handed to su

procVars == <<procRoot, cwd, returnDir, root, rootOpen>>
tableVars == <<own, pre, dirs>>
mountVars == <<fileSystemsMounted, mIdx, mErr, mountLog>>
umountVars == <<uList, uIdx, retries, fileSystemsUnmountBacklog, bIdx, uErr, attempts,
               sleeps>>
inputVars == <<mode, targetExists, targetAbs, cwd0, pre0, dirs0, D0>>
callerVars == <<reentry, nested, markers, exitCalls, callerErrs>>
locateVars == <<lfFile, lfOpens, lfMatchIndex, lfReturnIndex, lfMatch, lfLine, lfOut>>
copyVars == <<cpSrc, cpDest, cpPos, cpErr, cpSrc0, cpDest0>>
includesVars == <<giFile, giOpens, giRest, includePkgs, includePkgs0, giErr>>
fileVars == <<copyVars, includesVars>>
mainVars == <<uid, osArgs, command, alias, panic, effects, loginName>>

vars == <<mode, pc, caller, targetExists, targetAbs, procRoot, cwd, returnDir,
          root, rootOpen, own, pre, dirs, devicesToMount, fileSystemsMounted, mIdx,
          mErr, errs, uList, uIdx, retries, fileSystemsUnmountBacklog, bIdx,
          uErr, exitErr, faults, attempts, sleeps, mountLog, cwd0, pre0, dirs0, D0,
          reentry, nested, markers, exitCalls, callerErrs,
          lfFile, lfOpens, lfMatchIndex, lfReturnIndex, lfMatch, lfLine, lfOut,
          cpSrc, cpDest, cpPos, cpErr, cpSrc0, cpDest0,
          giFile, giOpens, giRest, includePkgs, includePkgs0, giErr,
          uid, osArgs, command, alias, panic, effects, loginName>>

\* ----------------------------------------------------------------- helpers
SeqsUpTo(S, n) == UNION {[1..k -> S] : k \in 0..n}

Swap(arr, i, j) == [arr EXCEPT ![i] = arr[j], ![j] = arr[i]]

RECURSIVE reverseLoop(_, _, _)
reverseLoop(arr, i, j) ==
    IF i < j THEN reverseLoop(Swap(arr, i, j), i + 1, j - 1) ELSE arr

\* reverse(arr *[]string): swaps in place, so the caller's array changes too
reverse(arr) == reverseLoop(arr, 1, Len(arr))

\* --------------------------------------------------------- the environment
ZeroTable == [d \in DeviceSet |-> 0]

\* mount tables the program can find at start: clean, or one mount point that
\* still carries the binds an earlier run left behind
PreTables ==
    {ZeroTable} \cup
    {[ZeroTable EXCEPT ![d] = k] : d \in DeviceSet, k \in 1..MaxPre}

Mounted(d) == own[d] + pre[d] > 0

\* filepath.Join(target, filesys) names the mount point made at entry: an
\* absolute target is looked up from the process root, a relative one from
\* the working directory
Resolves == IF targetAbs THEN procRoot = "hostRoot" ELSE cwd = cwd0

\* results of syscall.Unmount the state of the system produces by itself:
\* EINVAL for a directory that is not a mount point, ENOENT for a path that
\* names nothing
NaturalUnmount(filesys) ==
    IF Resolves
    THEN IF Mounted(filesys) THEN {Nil}
         ELSE IF filesys \in dirs THEN {EINVAL} ELSE {EOTHER}
    ELSE {EINVAL, EOTHER}

\* results produced by an injected failure
FaultyUnmount(filesys) ==
    IF Resolves /\ Mounted(filesys) THEN {EBUSY, EOTHER}
    ELSE IF Resolves THEN {EOTHER}
    ELSE {}

\* how often the environment may fail in one run; the "stuck" driver looks
\* at one mount point that stays busy for longer
FaultBudget == IF mode = "stuck" THEN MaxFaults + 2 ELSE MaxFaults

UnmountResults(filesys) ==
    NaturalUnmount(filesys) \cup
    (IF faults < FaultBudget THEN FaultyUnmount(filesys) ELSE {})

\* a successful unmount detaches the topmost mount of the mount point
OwnAfterUnmount(filesys) ==
    IF own[filesys] > 0 THEN [own EXCEPT ![filesys] = @ - 1] ELSE own

PreAfterUnmount(filesys) ==
    IF own[filesys] > 0 THEN pre ELSE [pre EXCEPT ![filesys] = @ - 1]

\* ---------------------------------------------------------------- Init
\* the process before its first call: in the directory it was started in,
\* with the root it was started with, nothing bound, nothing returned
NoCallYet ==
    /\ cwd = "workDir"
    /\ procRoot = "hostRoot"
    /\ caller = "none"
    /\ returnDir = ""
    /\ root = ""
    /\ rootOpen = FALSE
    /\ own = ZeroTable
    /\ fileSystemsMounted = <<>>
    /\ mIdx = 1
    /\ mErr = Nil
    /\ errs = <<>>
    /\ uList = <<>>
    /\ uIdx = 1
    /\ retries = 0
    /\ fileSystemsUnmountBacklog = <<>>
    /\ bIdx = 1
    /\ uErr = Nil
    /\ exitErr = ""
    /\ faults = 0
    /\ attempts = <<>>
    /\ sleeps = <<>>
    /\ mountLog = <<>>
    /\ reentry = "none"
    /\ nested = 0
    /\ markers = {}
    /\ exitCalls = 0
    /\ callerErrs = <<>>
    /\ cwd0 = cwd
    /\ pre0 = pre
    /\ dirs0 = dirs
    /\ D0 = devicesToMount

\* the results of locateField before it returns (Go's zero values)
NotReturned == [val |-> <<>>, err |-> Nil, panic |-> FALSE]

\* no locateField call is part of the run
NoLookup ==
    /\ lfFile = <<>>
    /\ lfOpens = TRUE
    /\ lfMatchIndex = 0
    /\ lfReturnIndex = 0
    /\ lfMatch = [lit |-> <<>>, anchored |-> FALSE]
    /\ lfLine = 0
    /\ lfOut = NotReturned

\* a path that names no file, and a file with the bytes data
NoFile == [exists |-> FALSE, data |-> <<>>]

File(data) == [exists |-> TRUE, data |-> data]

\* no copy call is part of the run
NoCopy ==
    /\ cpSrc = NoFile
    /\ cpDest = NoFile
    /\ cpPos = 0
    /\ cpErr = Nil
    /\ cpSrc0 = cpSrc
    /\ cpDest0 = cpDest

\* no getComprtIncludes call is part of the run
NoIncludes ==
    /\ giFile = <<>>
    /\ giOpens = TRUE
    /\ giRest = <<>>
    /\ includePkgs = <<>>
    /\ includePkgs0 = includePkgs
    /\ giErr = Nil

\* strconv.Itoa for a number that is not negative
Digits == <<"0", "1", "2", "3", "4", "5", "6", "7", "8", "9">>

RECURSIVE Itoa(_)
Itoa(n) ==
    IF n < 10 THEN <<Digits[n + 1]>>
    ELSE Itoa(n \div 10) \o <<Digits[(n % 10) + 1]>>

\* a line of /etc/passwd, up to its uid field: "name:x:uid"
PasswdLine(name, u) == <<name, ":", "x", ":">> \o Itoa(u)

\* the line useradd writes for the default comprt user
DefaultUserLine == PasswdLine(defaultComprtUserName[1], defaultComprtUid)

\* main is not part of the run: a test calls the function itself, as root
NoMain ==
    /\ uid = rootUid
    /\ osArgs = <<>>
    /\ command = ""
    /\ alias = ""
    /\ panic = ""
    /\ effects = {}
    /\ loginName = <<>>

\* command lines that name a command and the arguments it requires
CommandLines == {<<"chroot">>, <<"create">>, <<"create", "--alias">>}

\* the process when main starts: run by root or by an ordinary user, on a
\* target given by its absolute path, free of stale mounts and holding some
\* of the mount points; the chroot command finds an /etc/passwd that is
\* empty, holds the default comprt user, or cannot be opened
MainStart ==
    /\ targetAbs
    /\ pre = ZeroTable
    /\ dirs = (IF targetExists THEN {"/sys", "/dev"} ELSE {})
    /\ uid \in {rootUid, 1000}
    /\ osArgs \in CommandLines
    /\ command = ""
    /\ alias = ""
    /\ panic = ""
    /\ effects = {}
    /\ loginName = <<>>
    /\ lfFile \in (IF osArgs[1] = "chroot" THEN {<<>>, <<DefaultUserLine>>} ELSE {<<>>})
    /\ lfOpens \in (IF osArgs[1] = "chroot" /\ lfFile = <<>> THEN BOOLEAN ELSE {TRUE})
    /\ lfMatchIndex = 0
    /\ lfReturnIndex = 0
    /\ lfMatch = [lit |-> <<>>, anchored |-> FALSE]
    /\ lfLine = 0
    /\ lfOut = NotReturned

\* the target directory as the program can find it
TargetAtStart ==
    /\ targetExists \in BOOLEAN
    /\ pre \in (IF targetExists THEN PreTables ELSE {ZeroTable})
    /\ dirs \in (IF targetExists
                 THEN {{d \in DeviceSet : pre[d] > 0} \cup S :
                          S \in {{}, {"/sys", "/dev"}}}
                 ELSE {{}})

Init ==
    /\ mode \in {"session", "pair"}
    /\ TargetAtStart
    /\ targetAbs \in (IF mode = "session" THEN BOOLEAN ELSE {TRUE})
    /\ devicesToMount \in (IF mode = "session" THEN {CanonicalDevices}
                           ELSE SeqsUpTo(DeviceSet, MaxLen))
    /\ pc \in (IF mode = "session" THEN {"main", "start"} ELSE {"start"})
    /\ NoCallYet
    /\ IF pc = "main" THEN MainStart ELSE NoMain /\ NoLookup
    /\ NoCopy
    /\ NoIncludes

\* ------------------------------------------------ mountChrootFileSystems
\* what one turn of the loop over devicesToMount can do:
\*   "ok"       the mount point exists or is created, and the bind succeeds
\*   "mkdirErr" os.Stat says ErrNotExist and os.Mkdir fails
\*   "statErr"  os.Stat fails otherwise: no Mkdir, and the bind fails
\*   "mountErr" the mount point exists or is created, and syscall.Mount fails
\* mutant: the missing parents of a mount point are made with it
NaturalMount_MkdirAll(filesys) == {"ok"}

\* mutant: os.Mkdir is called for a mount point that exists, and fails
NaturalMount_MkdirAlways(filesys) ==
    IF filesys \in dirs \/ ~targetExists THEN {"mkdirErr"} ELSE {"ok"}

NaturalMount(filesys) ==
    IF filesys \in dirs \/ targetExists THEN {"ok"} ELSE {"mkdirErr"}

FaultyMount(filesys) ==
    IF filesys \in dirs THEN {"mountErr"}
    ELSE IF targetExists THEN {"mkdirErr", "statErr", "mountErr"}
    ELSE {"statErr"}

MountOutcomes(filesys) ==
    NaturalMount(filesys) \cup
    (IF faults < MaxFaults THEN FaultyMount(filesys) ELSE {})

\* mutant: the device whose turn failed is returned as if it were bound
MountedOnFailure_WithFailed(mounted, filesys) == Append(mounted, filesys)

\* "return fileSystemsMounted, err"
MountedOnFailure(mounted, filesys) == mounted

\* "fileSystemsMounted = append(fileSystemsMounted, filesys)"
MountedOnSuccess(mounted, filesys) == Append(mounted, filesys)

\* the directory is made only when os.Stat reports that it does not exist
DirsAfterMkdir(filesys) == dirs \cup {filesys}

mountChrootFileSystems_Step ==
    /\ pc = "mount"
    /\ mIdx <= Len(devicesToMount)
    /\ LET filesys == devicesToMount[mIdx] IN
       \E o \in MountOutcomes(filesys) :
          /\ faults' = IF o \in NaturalMount(filesys) THEN faults ELSE faults + 1
          /\ dirs' = IF o \in {"ok", "mountErr"} THEN DirsAfterMkdir(filesys) ELSE dirs
          /\ IF o = "ok"
             THEN /\ own' = [own EXCEPT ![filesys] = @ + 1]
                  /\ fileSystemsMounted' = MountedOnSuccess(fileSystemsMounted, filesys)
                  /\ mountLog' = Append(mountLog, filesys)
                  /\ mIdx' = mIdx + 1
                  /\ mErr' = Nil
                  /\ pc' = IF mIdx = Len(devicesToMount) THEN "mountRet" ELSE "mount"
             ELSE /\ own' = own
                  /\ fileSystemsMounted' = MountedOnFailure(fileSystemsMounted, filesys)
                  /\ mountLog' = mountLog
                  /\ mIdx' = mIdx
                  /\ mErr' = IF o = "mkdirErr" THEN "EMKDIR" ELSE "EMOUNT"
                  /\ pc' = "mountRet"
    /\ UNCHANGED <<inputVars, fileVars, mainVars, callerVars, locateVars, procVars, umountVars, pre, devicesToMount, caller,
                   errs, exitErr>>

\* ---------------------------------------------- unMountChrootFileSystems
\* mutant: the list is processed in mount order
UnmountOrder_MountOrder(list) == list

\* "reverse(&devicesToMount)"
UnmountOrder(list) == reverse(list)

\* mutant: the retries test comes before the test for success
Phase1Branch_RetriesFirst(err, r) ==
    IF r = 1 THEN "backlog"
    ELSE IF err = Nil THEN "break"
    ELSE IF err = EBUSY THEN "retry"
    ELSE IF err = EINVAL THEN "break"
    ELSE "return"

\* mutant: a directory that is not a mount point ends the call with the error
Phase1Branch_InvalidFatal(err, r) ==
    IF err = Nil THEN "break"
    ELSE IF r = 1 THEN "backlog"
    ELSE IF err = EBUSY THEN "retry"
    ELSE "return"

\* mutant: an error that is neither EBUSY nor EINVAL is passed over
Phase1Branch_OtherSkipped(err, r) ==
    IF err = Nil THEN "break"
    ELSE IF r = 1 THEN "backlog"
    ELSE IF err = EBUSY THEN "retry"
    ELSE "break"

\* the if/else chain of the first loop: what follows an unmount result
Phase1Branch(err, r) ==
    IF err = Nil THEN "break"
    ELSE IF r = 1 THEN "backlog"
    ELSE IF err = EBUSY THEN "retry"
    ELSE IF err = EINVAL THEN "break"
    ELSE "return"

\* "time.Sleep(1 * time.Second)" and "time.Sleep(2 * time.Second)"
Phase1Sleep == 1
Phase2Sleep == 2

\* the sleeps so far, and the one the branch "retry" makes on filesys; after
\* is the number of the attempt it follows
AfterSleep(b, filesys, ph, secs) ==
    IF b = "retry"
    THEN Append(sleeps, [dev |-> filesys, phase |-> ph, secs |-> secs,
                         after |-> Len(attempts) + 1])
    ELSE sleeps

\* the if/else chain of the second loop
Phase2Branch(err, r) ==
    IF err = Nil THEN "break"
    ELSE IF r = 1 THEN "unable"
    ELSE IF err = EBUSY THEN "retry"
    ELSE IF err = EINVAL THEN "break"
    ELSE "return"

\* entry of unMountChrootFileSystems: the list is reversed and the loop starts
Begin(list, who) ==
    /\ uList' = UnmountOrder(list)
    /\ uIdx' = 1
    /\ retries' = 0
    /\ fileSystemsUnmountBacklog' = <<>>
    /\ bIdx' = 1
    /\ uErr' = Nil
    /\ caller' = who
    /\ pc' = "umount1"

unMountChrootFileSystems_Phase1 ==
    /\ pc = "umount1"
    /\ uIdx <= Len(uList)
    /\ Len(attempts) < MaxAttempts
    /\ LET filesys == uList[uIdx] IN
       \E err \in UnmountResults(filesys) :
          LET b == Phase1Branch(err, retries) IN
          /\ faults' = IF err \in NaturalUnmount(filesys) THEN faults ELSE faults + 1
          /\ attempts' = Append(attempts,
                 [dev |-> filesys, phase |-> 1, idx |-> uIdx, retries |-> retries,
                  err |-> err, fault |-> err \notin NaturalUnmount(filesys)])
          /\ own' = IF err = Nil THEN OwnAfterUnmount(filesys) ELSE own
          /\ pre' = IF err = Nil THEN PreAfterUnmount(filesys) ELSE pre
          /\ uIdx' = IF b = "break" THEN uIdx + 1 ELSE uIdx
          /\ retries' = IF b = "break" THEN 0
                        ELSE IF b = "retry" THEN retries + 1 ELSE retries
          /\ fileSystemsUnmountBacklog' =
                 IF b = "backlog" THEN Append(fileSystemsUnmountBacklog, filesys)
                 ELSE fileSystemsUnmountBacklog
          /\ sleeps' = AfterSleep(b, filesys, 1, Phase1Sleep)
          /\ uErr' = IF b = "return" THEN err ELSE uErr
          /\ pc' = IF b = "return" THEN "uret" ELSE pc
    /\ UNCHANGED <<inputVars, fileVars, mainVars, callerVars, locateVars, procVars, mountVars, dirs, devicesToMount, caller,
                   errs, exitErr, uList, bIdx>>

\* the first loop has gone through every device
unMountChrootFileSystems_Phase1Done ==
    /\ pc = "umount1"
    /\ uIdx > Len(uList)
    /\ pc' = "umount2"
    /\ bIdx' = 1
    /\ retries' = 0
    /\ UNCHANGED <<inputVars, fileVars, mainVars, callerVars, locateVars, procVars, tableVars, mountVars, devicesToMount,
                   caller, errs, exitErr, faults, uList, uIdx,
                   fileSystemsUnmountBacklog, uErr, attempts, sleeps>>

unMountChrootFileSystems_Phase2 ==
    /\ pc = "umount2"
    /\ bIdx <= Len(fileSystemsUnmountBacklog)
    /\ Len(attempts) < MaxAttempts
    /\ LET filesys == fileSystemsUnmountBacklog[bIdx] IN
       \E err \in UnmountResults(filesys) :
          LET b == Phase2Branch(err, retries) IN
          /\ faults' = IF err \in NaturalUnmount(filesys) THEN faults ELSE faults + 1
          /\ attempts' = Append(attempts,
                 [dev |-> filesys, phase |-> 2, idx |-> bIdx, retries |-> retries,
                  err |-> err, fault |-> err \notin NaturalUnmount(filesys)])
          /\ own' = IF err = Nil THEN OwnAfterUnmount(filesys) ELSE own
          /\ pre' = IF err = Nil THEN PreAfterUnmount(filesys) ELSE pre
          /\ bIdx' = IF b = "break" THEN bIdx + 1 ELSE bIdx
          /\ retries' = IF b = "break" THEN 0
                        ELSE IF b = "retry" THEN retries + 1 ELSE retries
          /\ sleeps' = AfterSleep(b, filesys, 2, Phase2Sleep)
          /\ uErr' = IF b = "return" THEN err
                     ELSE IF b = "unable" THEN UnableToUnmount(filesys) ELSE uErr
          /\ pc' = IF b \in {"return", "unable"} THEN "uret" ELSE pc
    /\ UNCHANGED <<inputVars, fileVars, mainVars, callerVars, locateVars, procVars, mountVars, dirs, devicesToMount, caller,
                   errs, exitErr, uList, uIdx, fileSystemsUnmountBacklog>>

\* "return nil" after the second loop
unMountChrootFileSystems_ReturnNil ==
    /\ pc = "umount2"
    /\ bIdx > Len(fileSystemsUnmountBacklog)
    /\ pc' = "uret"
    /\ uErr' = Nil
    /\ UNCHANGED <<inputVars, fileVars, mainVars, callerVars, locateVars, procVars, tableVars, mountVars, devicesToMount,
                   caller, errs, exitErr, faults, uList, uIdx, retries,
                   fileSystemsUnmountBacklog, bIdx, attempts, sleeps>>

\* ------------------------------------------------------ the "pair" driver
\* mountChrootFileSystems(devicesToMount, testTarget)
Pair_Mount ==
    /\ pc = "start"
    /\ mode = "pair"
    /\ pc' = IF Len(devicesToMount) = 0 THEN "mountRet" ELSE "mount"
    /\ UNCHANGED <<inputVars, fileVars, mainVars, callerVars, locateVars, procVars, tableVars, mountVars, umountVars,
                   devicesToMount, caller, errs, exitErr, faults>>

\* unMountChrootFileSystems(fileSystemsMounted, testTarget)
Pair_Unmount ==
    /\ pc = "mountRet"
    /\ mode = "pair"
    /\ Begin(fileSystemsMounted, "pair")
    /\ fileSystemsMounted' = UnmountOrder(fileSystemsMounted)
    /\ UNCHANGED <<inputVars, fileVars, mainVars, callerVars, locateVars, procVars, tableVars, mIdx, mErr, mountLog,
                   devicesToMount, errs, exitErr, faults, attempts, sleeps>>

Pair_Done ==
    /\ pc = "uret"
    /\ caller = "pair"
    /\ pc' = "pairDone"
    /\ UNCHANGED <<inputVars, fileVars, mainVars, callerVars, locateVars, procVars, tableVars, mountVars, umountVars,
                   devicesToMount, caller, errs, exitErr, faults>>

\* --------------------------------------------------- the "unmount" driver
\* unMountChrootFileSystems([]string{...}, testTarget) on a list of the
\* caller's own
Direct_Unmount ==
    /\ pc = "start"
    /\ mode \in {"unmount", "stuck"}
    /\ Begin(devicesToMount, "direct")
    /\ devicesToMount' = UnmountOrder(devicesToMount)
    /\ UNCHANGED <<inputVars, fileVars, mainVars, callerVars, locateVars, procVars, tableVars,
                   mountVars, errs, exitErr, faults, attempts, sleeps>>

Direct_Done ==
    /\ pc = "uret"
    /\ caller = "direct"
    /\ pc' = "directDone"
    /\ UNCHANGED <<inputVars, fileVars, mainVars, callerVars, locateVars, procVars, tableVars,
                   mountVars, umountVars, devicesToMount, caller, errs, exitErr,
                   faults>>

\* ------------------------------------------------------------------ Chroot
\* os.Getwd() and os.Open("/"): a failure returns before the deferred unwind
\* is registered
Chroot_Capture ==
    /\ pc = "start"
    /\ mode = "session"
    /\ \E o \in {"ok"} \cup (IF faults < MaxFaults THEN {"getwdErr", "openErr"} ELSE {}) :
          /\ faults' = IF o = "ok" THEN faults ELSE faults + 1
          /\ returnDir' = IF o = "getwdErr" THEN returnDir ELSE cwd
          /\ root' = IF o = "ok" THEN procRoot ELSE root
          /\ rootOpen' = (o = "ok")
          /\ errs' = IF o = "ok" THEN errs
                     ELSE Append(errs, IF o = "getwdErr" THEN "EGETWD" ELSE "EOPEN")
          /\ pc' = IF o = "ok" THEN "mount" ELSE "entryFailed"
    /\ UNCHANGED <<inputVars, fileVars, mainVars, callerVars, locateVars, procRoot, cwd, tableVars, mountVars, umountVars,
                   devicesToMount, caller, exitErr>>

\* "if err != nil { return nil, append(errs, err) }" after the binds
Chroot_AfterMount ==
    /\ pc = "mountRet"
    /\ mode = "session"
    /\ errs' = IF mErr # Nil THEN Append(errs, mErr) ELSE errs
    /\ pc' = IF mErr # Nil THEN "deferred" ELSE "sysChroot"
    /\ UNCHANGED <<inputVars, fileVars, mainVars, callerVars, locateVars, procVars, tableVars, mountVars, umountVars,
                   devicesToMount, caller, exitErr, faults>>

\* mutant: the root directory is not changed
ChrootTarget_Noop == procRoot

\* root directory after syscall.Chroot(target)
ChrootTarget == "targetRoot"

\* mutant: the working directory is not moved into the new root
ChdirSlash_Stay == cwd

\* working directory after syscall.Chdir("/")
ChdirSlash == procRoot

\* syscall.Chroot(target)
Chroot_SysChroot ==
    /\ pc = "sysChroot"
    /\ \E ok \in {TRUE} \cup (IF faults < MaxFaults THEN {FALSE} ELSE {}) :
          /\ faults' = IF ok THEN faults ELSE faults + 1
          /\ procRoot' = IF ok THEN ChrootTarget ELSE procRoot
          /\ errs' = IF ok THEN errs ELSE Append(errs, "ECHROOT")
          /\ pc' = IF ok THEN "sysChdir" ELSE "deferred"
    /\ UNCHANGED <<inputVars, fileVars, mainVars, callerVars, locateVars, cwd, returnDir, root, rootOpen, tableVars, mountVars,
                   umountVars, devicesToMount, caller, exitErr>>

\* syscall.Chdir("/"): on success Chroot returns the exit closure
Chroot_SysChdir ==
    /\ pc = "sysChdir"
    /\ \E ok \in {TRUE} \cup (IF faults < MaxFaults THEN {FALSE} ELSE {}) :
          /\ faults' = IF ok THEN faults ELSE faults + 1
          /\ cwd' = IF ok THEN ChdirSlash ELSE cwd
          /\ errs' = IF ok THEN errs ELSE Append(errs, "ECHDIR")
          /\ pc' = IF ok THEN "inside" ELSE "deferred"
    /\ UNCHANGED <<inputVars, fileVars, mainVars, callerVars, locateVars, procRoot, returnDir, root, rootOpen, tableVars,
                   mountVars, umountVars, devicesToMount, caller, exitErr>>

\* what the deferred function does to the process root before it unmounts
DeferredRoot == procRoot

\* the deferred function, errs != nil: root.Close(), then
\* unMountChrootFileSystems(fileSystemsMounted, target)
Chroot_Deferred ==
    /\ pc = "deferred"
    /\ rootOpen' = FALSE
    /\ procRoot' = DeferredRoot
    /\ Begin(fileSystemsMounted, "unwind")
    /\ fileSystemsMounted' = UnmountOrder(fileSystemsMounted)
    /\ UNCHANGED <<inputVars, fileVars, mainVars, callerVars, locateVars, cwd, returnDir, root, tableVars, mIdx, mErr,
                   mountLog, devicesToMount, errs, exitErr, faults, attempts, sleeps>>

\* "if err := unMount...; err != nil { errs = append(errs, err) }", and Chroot
\* returns (nil, errs)
Chroot_DeferredReturn ==
    /\ pc = "uret"
    /\ caller = "unwind"
    /\ errs' = IF uErr # Nil THEN Append(errs, uErr) ELSE errs
    /\ pc' = "entryFailed"
    /\ UNCHANGED <<inputVars, fileVars, mainVars, callerVars, locateVars, procVars, tableVars, mountVars, umountVars,
                   devicesToMount, caller, exitErr, faults>>

\* Chroot(target) called again while the session is open. Chroot keeps no
\* record of an open session and tests nothing before it acts: os.Getwd and
\* os.Open("/") succeed inside the compartment, and the binds are made when
\* target names a directory as seen from inside (found); otherwise the first
\* os.Mkdir fails and the call returns that error. The call is one step, with
\* no injected failure.
Chroot_Reenter ==
    /\ pc = "inside"
    /\ reentry = "none"
    /\ \E found \in BOOLEAN :
          /\ reentry' = IF found THEN "entered" ELSE "failed"
          /\ nested' = IF found THEN Len(CanonicalDevices) ELSE nested
          /\ procRoot' = IF found THEN "nestedRoot" ELSE procRoot
          /\ cwd' = IF found THEN "nestedRoot" ELSE cwd
    /\ UNCHANGED <<inputVars, fileVars, mainVars, locateVars, markers, exitCalls, callerErrs, pc,
                   returnDir, root, rootOpen, tableVars, mountVars, umountVars,
                   devicesToMount, caller, errs, exitErr, faults>>

\* ------------------------------------------------------- the exit closure
\* mutant: the closure does not go back to the captured root
RootChdir_Stay == cwd

\* directory the process is in after root.Chdir()
RootChdir == root

\* root directory after syscall.Chroot(".")
ChrootDot == cwd

\* working directory after os.Chdir(returnDir)
ChdirReturnDir == returnDir

\* mutant: the unmount error is dropped
ExitResult_Swallow(err) == Nil

\* what exit returns when unMountChrootFileSystems returned err
ExitResult(err) == err

\* mutant: the closure goes on to the unmount after a restore call that failed
RestoreFailed_GoOn == "exitUnmount"

\* "if err := ...; err != nil { return err }" of the three restore calls
RestoreFailed == "exited"

\* root.Chdir()
Exit_RootChdir ==
    /\ pc = "exitCall"
    /\ \E ok \in {TRUE} \cup (IF faults < MaxFaults THEN {FALSE} ELSE {}) :
          /\ faults' = IF ok THEN faults ELSE faults + 1
          /\ cwd' = IF ok THEN RootChdir ELSE cwd
          /\ exitErr' = IF ok THEN exitErr ELSE "EFCHDIR"
          /\ pc' = IF ok THEN "exitChroot" ELSE RestoreFailed
    /\ UNCHANGED <<inputVars, fileVars, mainVars, callerVars, locateVars, procRoot, returnDir, root, rootOpen, tableVars,
                   mountVars, umountVars, devicesToMount, caller, errs>>

\* syscall.Chroot(".")
Exit_SysChroot ==
    /\ pc = "exitChroot"
    /\ \E ok \in {TRUE} \cup (IF faults < MaxFaults THEN {FALSE} ELSE {}) :
          /\ faults' = IF ok THEN faults ELSE faults + 1
          /\ procRoot' = IF ok THEN ChrootDot ELSE procRoot
          /\ exitErr' = IF ok THEN exitErr ELSE "ECHROOT"
          /\ pc' = IF ok THEN "exitChdir" ELSE RestoreFailed
    /\ UNCHANGED <<inputVars, fileVars, mainVars, callerVars, locateVars, cwd, returnDir, root, rootOpen, tableVars, mountVars,
                   umountVars, devicesToMount, caller, errs>>

\* os.Chdir(returnDir)
Exit_Chdir ==
    /\ pc = "exitChdir"
    /\ \E ok \in {TRUE} \cup (IF faults < MaxFaults THEN {FALSE} ELSE {}) :
          /\ faults' = IF ok THEN faults ELSE faults + 1
          /\ cwd' = IF ok THEN ChdirReturnDir ELSE cwd
          /\ exitErr' = IF ok THEN exitErr ELSE "ECHDIR"
          /\ pc' = IF ok THEN "exitUnmount" ELSE RestoreFailed
    /\ UNCHANGED <<inputVars, fileVars, mainVars, callerVars, locateVars, procRoot, returnDir, root, rootOpen, tableVars,
                   mountVars, umountVars, devicesToMount, caller, errs>>

\* unMountChrootFileSystems(devicesToMount, target): the closure's
\* devicesToMount is Chroot's array, which the callee reverses in place
Exit_Unmount ==
    /\ pc = "exitUnmount"
    /\ Begin(devicesToMount, "exit")
    /\ devicesToMount' = UnmountOrder(devicesToMount)
    /\ UNCHANGED <<inputVars, fileVars, mainVars, callerVars, locateVars, procVars, tableVars, mountVars, errs, exitErr,
                   faults, attempts, sleeps>>

\* "if err != nil { root.Close(); return err }; return nil"
Exit_Return ==
    /\ pc = "uret"
    /\ caller = "exit"
    /\ rootOpen' = IF uErr # Nil THEN FALSE ELSE rootOpen
    /\ exitErr' = ExitResult(uErr)
    /\ pc' = "exited"
    /\ UNCHANGED <<inputVars, fileVars, mainVars, callerVars, locateVars, procRoot, cwd, returnDir, root, tableVars, mountVars,
                   umountVars, devicesToMount, caller, errs, faults>>

\* ------------------------------------ createComprt, runInteractiveChroot
\* what the caller does between Chroot and its return: exec.LookPath, then
\* Start and Wait of the command that runs in the compartment
WorkOutcomes == {"ok", "lookPathErr", "startErr", "waitErr"}

WorkErr(o) ==
    IF o = "ok" THEN Nil
    ELSE IF o = "lookPathErr" THEN "ELOOKPATH"
    ELSE IF o = "startErr" THEN "ESTART"
    ELSE "EWAIT"

\* the command ran in the compartment (and wrote its /marker there)
CommandRan(o) == o \in {"ok", "waitErr"}

\* mutant: a failing step returns at once, exit is left to the success path
AfterWork_ReturnOnError(err) == IF err = Nil THEN "callerDefer" ELSE "callerDone"

\* where the caller goes once its work ended with err: the function deferred
\* right after Chroot runs on every return
AfterWork(err) == "callerDefer"

\* "if errs != nil { errs = append(errs, errs...); return }"
Caller_ChrootFailed ==
    /\ pc = "entryFailed"
    /\ callerErrs' = errs \o errs
    /\ pc' = "callerDone"
    /\ UNCHANGED <<inputVars, fileVars, mainVars, locateVars, reentry, nested, markers, exitCalls,
                   procVars, tableVars, mountVars, umountVars, devicesToMount,
                   caller, errs, exitErr, faults>>

\* "errs = append(errs, err); return" of the first step that fails, or
\* "return nil"
Caller_Work ==
    /\ pc = "inside"
    /\ \E o \in WorkOutcomes :
          /\ callerErrs' = IF o = "ok" THEN <<>> ELSE Append(callerErrs, WorkErr(o))
          /\ markers' = IF CommandRan(o) THEN markers \cup {procRoot} ELSE markers
          /\ pc' = AfterWork(WorkErr(o))
    /\ UNCHANGED <<inputVars, fileVars, mainVars, locateVars, reentry, nested, exitCalls, procVars,
                   tableVars, mountVars, umountVars, devicesToMount, caller, errs,
                   exitErr, faults>>

\* the deferred function calls exitChroot()
Caller_Defer ==
    /\ pc = "callerDefer"
    /\ exitCalls' = exitCalls + 1
    /\ pc' = "exitCall"
    /\ UNCHANGED <<inputVars, fileVars, mainVars, locateVars, reentry, nested, markers, callerErrs,
                   procVars, tableVars, mountVars, umountVars, devicesToMount,
                   caller, errs, exitErr, faults>>

\* "if err := exitChroot(); err != nil { errs = append(errs, err) }", and
\* the caller returns errs
Caller_Return ==
    /\ pc = "exited"
    /\ callerErrs' = IF exitErr # Nil THEN Append(callerErrs, exitErr) ELSE callerErrs
    /\ pc' = "callerDone"
    /\ UNCHANGED <<inputVars, fileVars, mainVars, locateVars, reentry, nested, markers, exitCalls,
                   procVars, tableVars, mountVars, umountVars, devicesToMount,
                   caller, errs, exitErr, faults>>

\* ------------------------------------------------------------ locateField
\* longest file, in lines
MaxLines == 2
\* largest matchIndex and returnIndex
MaxIndex == 2

\* the separator fieldSepRegex matches: one colon, as in /etc/passwd
Sep == ":"

\* lines a passwd-like file is made of: "a:1", "b:1", "b:21", "a", "",
\* "a:2", "1:a:b", "a:"
LineSet ==
    { <<"a", ":", "1">>, <<"b", ":", "1">>, <<"b", ":", "2", "1">>, <<"a">>, <<>>,
      <<"a", ":", "2">>, <<"1", ":", "a", ":", "b">>, <<"a", ":">> }

\* matchRegex: the text lit, anywhere in the field or, anchored, as the whole
\* field ("^lit$")
MatchSet ==
    { [lit |-> <<"1">>, anchored |-> FALSE], [lit |-> <<"1">>, anchored |-> TRUE],
      [lit |-> <<"a">>, anchored |-> FALSE], [lit |-> <<>>, anchored |-> FALSE] }

RECURSIVE SplitFrom(_, _, _)
SplitFrom(text, i, field) ==
    IF i > Len(text) THEN <<field>>
    ELSE IF text[i] = Sep THEN <<field>> \o SplitFrom(text, i + 1, <<>>)
    ELSE SplitFrom(text, i + 1, Append(field, text[i]))

\* fieldSepRegex.Split(scanner.Text(), allFields): the text between the
\* separators, one field more than there are separators
Split(text) == SplitFrom(text, 1, <<>>)

\* matchRegex.FindStringIndex(field) != nil
Matches(field) ==
    IF lfMatch.anchored THEN field = lfMatch.lit
    ELSE \E i \in 0..(Len(field) - Len(lfMatch.lit)) :
            SubSeq(field, i + 1, i + Len(lfMatch.lit)) = lfMatch.lit

\* "if len(fields) <= matchIndex { continue }"
TooShort(fields) == Len(fields) <= lfMatchIndex

\* mutant: the field that matched is returned
ReturnedField_Matched(fields) == fields[lfMatchIndex + 1]

\* "return fields[returnIndex], nil" (Go counts from 0)
ReturnedField(fields) == fields[lfReturnIndex + 1]

\* mutant: a lookup that finds nothing is an error
NoMatchResult_Error == [val |-> <<>>, err |-> "ENOTFOUND", panic |-> FALSE]

\* "return "", nil" after the loop
NoMatchResult == [val |-> <<>>, err |-> Nil, panic |-> FALSE]

\* os.Open(fPath)
locateField_Open ==
    /\ pc = "lfOpen"
    /\ lfOut' = IF lfOpens THEN lfOut ELSE [val |-> <<>>, err |-> "EOPEN", panic |-> FALSE]
    /\ pc' = IF lfOpens THEN "lfScan" ELSE "lfDone"
    /\ UNCHANGED <<inputVars, fileVars, mainVars, callerVars, procVars, tableVars, mountVars,
                   umountVars, devicesToMount, caller, errs, exitErr, faults,
                   lfFile, lfOpens, lfMatchIndex, lfReturnIndex, lfMatch, lfLine>>

\* one turn of "for scanner.Scan()": indexing fields past its end panics
locateField_Scan ==
    /\ pc = "lfScan"
    /\ lfLine < Len(lfFile)
    /\ lfLine' = lfLine + 1
    /\ LET fields == Split(lfFile[lfLine + 1]) IN
          IF TooShort(fields) \/ ~Matches(fields[lfMatchIndex + 1])
          THEN /\ pc' = pc
               /\ lfOut' = lfOut
          ELSE /\ pc' = "lfDone"
               /\ lfOut' = IF lfReturnIndex < Len(fields)
                            THEN [val |-> ReturnedField(fields), err |-> Nil, panic |-> FALSE]
                            ELSE [val |-> <<>>, err |-> Nil, panic |-> TRUE]
    /\ UNCHANGED <<inputVars, fileVars, mainVars, callerVars, procVars, tableVars, mountVars,
                   umountVars, devicesToMount, caller, errs, exitErr, faults,
                   lfFile, lfOpens, lfMatchIndex, lfReturnIndex, lfMatch>>

\* scanner.Scan() returns false: the loop ends
locateField_EOF ==
    /\ pc = "lfScan"
    /\ lfLine = Len(lfFile)
    /\ lfOut' = NoMatchResult
    /\ pc' = "lfDone"
    /\ UNCHANGED <<inputVars, fileVars, mainVars, callerVars, procVars, tableVars, mountVars,
                   umountVars, devicesToMount, caller, errs, exitErr, faults,
                   lfFile, lfOpens, lfMatchIndex, lfReturnIndex, lfMatch, lfLine>>

InitLocate ==
    /\ mode = "locate"
    /\ targetExists = TRUE
    /\ targetAbs = TRUE
    /\ pre = ZeroTable
    /\ dirs = {}
    /\ devicesToMount = CanonicalDevices
    /\ pc = "lfOpen"
    /\ NoCallYet
    /\ NoMain
    /\ lfFile \in SeqsUpTo(LineSet, MaxLines)
    /\ lfOpens \in BOOLEAN
    /\ lfMatchIndex \in 0..MaxIndex
    /\ lfReturnIndex \in 0..MaxIndex
    /\ lfMatch \in MatchSet
    /\ lfLine = 0
    /\ lfOut = NotReturned
    /\ NoCopy
    /\ NoIncludes

NextLocate ==
    \/ locateField_Open
    \/ locateField_Scan
    \/ locateField_EOF

SpecLocate == InitLocate /\ [][NextLocate]_vars

\* the drivers that work on files make no use of a target directory
NoTarget ==
    /\ targetExists = TRUE
    /\ targetAbs = TRUE
    /\ pre = ZeroTable
    /\ dirs = {}
    /\ devicesToMount = CanonicalDevices

\* ------------------------------------------------------------------- copy
\* longest file, in bytes
MaxBytes == 2

ByteSet == {"h", "t"}

\* what src and dest can be when copy is called
FileSet == {NoFile} \cup {File(data) : data \in SeqsUpTo(ByteSet, MaxBytes)}

\* mutant: dest is opened without O_EXCL and an existing file is emptied
OpenDest_Truncate(dest) == [err |-> Nil, file |-> File(<<>>)]

\* os.OpenFile(dest, O_CREAT|O_EXCL|O_WRONLY, mode): an existing dest is an
\* error, otherwise an empty file is made
OpenDest(dest) ==
    IF dest.exists THEN [err |-> "EEXIST", file |-> dest]
    ELSE [err |-> Nil, file |-> File(<<>>)]

\* mutant: the byte read is not written
WriteByte_Drop(dest, b) == dest

\* one byte of io.Copy(destFd, srcFd)
WriteByte(dest, b) == File(Append(dest.data, b))

\* os.Open(src)
copy_OpenSrc ==
    /\ pc = "cpOpenSrc"
    /\ cpErr' = IF cpSrc.exists THEN cpErr ELSE "ENOENT"
    /\ pc' = IF cpSrc.exists THEN "cpOpenDest" ELSE "cpDone"
    /\ UNCHANGED <<inputVars, mainVars, callerVars, locateVars, includesVars, procVars,
                   tableVars, mountVars, umountVars, devicesToMount, caller, errs,
                   exitErr, faults, cpSrc, cpDest, cpPos, cpSrc0, cpDest0>>

copy_OpenDest ==
    /\ pc = "cpOpenDest"
    /\ LET r == OpenDest(cpDest) IN
          /\ cpDest' = r.file
          /\ cpErr' = r.err
          /\ pc' = IF r.err = Nil THEN "cpCopy" ELSE "cpDone"
    /\ UNCHANGED <<inputVars, mainVars, callerVars, locateVars, includesVars, procVars,
                   tableVars, mountVars, umountVars, devicesToMount, caller, errs,
                   exitErr, faults, cpSrc, cpPos, cpSrc0, cpDest0>>

\* io.Copy moves the next byte, or a read or write fails and copy returns
\* the error with dest as far as it got
copy_IoCopy ==
    /\ pc = "cpCopy"
    /\ cpPos < Len(cpSrc.data)
    /\ \E ok \in {TRUE} \cup (IF faults < MaxFaults THEN {FALSE} ELSE {}) :
          /\ faults' = IF ok THEN faults ELSE faults + 1
          /\ cpDest' = IF ok THEN WriteByte(cpDest, cpSrc.data[cpPos + 1]) ELSE cpDest
          /\ cpPos' = IF ok THEN cpPos + 1 ELSE cpPos
          /\ cpErr' = IF ok THEN cpErr ELSE "EIO"
          /\ pc' = IF ok THEN pc ELSE "cpDone"
    /\ UNCHANGED <<inputVars, mainVars, callerVars, locateVars, includesVars, procVars,
                   tableVars, mountVars, umountVars, devicesToMount, caller, errs,
                   exitErr, cpSrc, cpSrc0, cpDest0>>

\* io.Copy reached the end of src: "return nil"
copy_Return ==
    /\ pc = "cpCopy"
    /\ cpPos = Len(cpSrc.data)
    /\ cpErr' = Nil
    /\ pc' = "cpDone"
    /\ UNCHANGED <<inputVars, mainVars, callerVars, locateVars, includesVars, procVars,
                   tableVars, mountVars, umountVars, devicesToMount, caller, errs,
                   exitErr, faults, cpSrc, cpDest, cpPos, cpSrc0, cpDest0>>

InitCopy ==
    /\ mode = "copy"
    /\ NoTarget
    /\ pc = "cpOpenSrc"
    /\ NoCallYet
    /\ NoMain
    /\ NoLookup
    /\ NoIncludes
    /\ cpSrc \in FileSet
    /\ cpDest \in FileSet
    /\ cpPos = 0
    /\ cpErr = Nil
    /\ cpSrc0 = cpSrc
    /\ cpDest0 = cpDest

NextCopy ==
    \/ copy_OpenSrc
    \/ copy_OpenDest
    \/ copy_IoCopy
    \/ copy_Return

SpecCopy == InitCopy /\ [][NextCopy]_vars

\* ------------------------------------------------------ getComprtIncludes
\* longest includes file, in bytes
MaxChars == 3

LF == "\n"
CR == "\r"

\* the bytes an includes file is made of: a letter of a package name, line
\* feed, carriage return
CharSet == {"p", LF, CR}

\* position of the first line feed in data, 0 when there is none
\* (bytes.IndexByte(data, '\n'))
IndexLF(data) ==
    IF \E i \in 1..Len(data) : data[i] = LF
    THEN CHOOSE i \in 1..Len(data) : data[i] = LF /\ \A j \in 1..(i - 1) : data[j] # LF
    ELSE 0

\* bufio's dropCR: one trailing carriage return is taken off
dropCR(data) ==
    IF Len(data) > 0 /\ data[Len(data)] = CR THEN SubSeq(data, 1, Len(data) - 1)
    ELSE data

\* bufio.ScanLines on what is left of the file: the next line without its
\* terminator, and what is left after it
ScanLines(data) ==
    LET i == IndexLF(data) IN
    IF i > 0 THEN [token |-> dropCR(SubSeq(data, 1, i - 1)),
                   rest |-> SubSeq(data, i + 1, Len(data))]
    ELSE [token |-> dropCR(data), rest |-> <<>>]

\* mutant: the line is put in front of the packages found so far
AppendPkg_InFront(pkgs, line) == <<line>> \o pkgs

\* "*includePkgs = append(*includePkgs, scanner.Text())"
AppendPkg(pkgs, line) == Append(pkgs, line)

\* os.Open(comprtIncludesPath): "the comprt includes is optional"
getComprtIncludes_Open ==
    /\ pc = "giOpen"
    /\ giErr' = Nil
    /\ pc' = IF giOpens THEN "giScan" ELSE "giDone"
    /\ UNCHANGED <<inputVars, mainVars, callerVars, locateVars, copyVars, procVars,
                   tableVars, mountVars, umountVars, devicesToMount, caller, errs,
                   exitErr, faults, giFile, giOpens, giRest, includePkgs,
                   includePkgs0>>

\* one turn of "for scanner.Scan()", or a read fails: the loop ends and
\* scanner.Err() is returned
getComprtIncludes_Scan ==
    /\ pc = "giScan"
    /\ giRest # <<>>
    /\ \E ok \in {TRUE} \cup (IF faults < MaxFaults THEN {FALSE} ELSE {}) :
          /\ faults' = IF ok THEN faults ELSE faults + 1
          /\ includePkgs' = IF ok THEN AppendPkg(includePkgs, ScanLines(giRest).token)
                             ELSE includePkgs
          /\ giRest' = IF ok THEN ScanLines(giRest).rest ELSE giRest
          /\ giErr' = IF ok THEN giErr ELSE "EIO"
          /\ pc' = IF ok THEN pc ELSE "giDone"
    /\ UNCHANGED <<inputVars, mainVars, callerVars, locateVars, copyVars, procVars,
                   tableVars, mountVars, umountVars, devicesToMount, caller, errs,
                   exitErr, giFile, giOpens, includePkgs0>>

\* end of file: scanner.Err() is nil, "return nil"
getComprtIncludes_EOF ==
    /\ pc = "giScan"
    /\ giRest = <<>>
    /\ giErr' = Nil
    /\ pc' = "giDone"
    /\ UNCHANGED <<inputVars, mainVars, callerVars, locateVars, copyVars, procVars,
                   tableVars, mountVars, umountVars, devicesToMount, caller, errs,
                   exitErr, faults, giFile, giOpens, giRest, includePkgs,
                   includePkgs0>>

InitIncludes ==
    /\ mode = "includes"
    /\ NoTarget
    /\ pc = "giOpen"
    /\ NoCallYet
    /\ NoMain
    /\ NoLookup
    /\ NoCopy
    /\ giFile \in SeqsUpTo(CharSet, MaxChars)
    /\ giOpens \in BOOLEAN
    /\ giRest = giFile
    /\ includePkgs \in {<<>>, << <<"p", "p">> >>}
    /\ includePkgs0 = includePkgs
    /\ giErr = Nil

NextIncludes ==
    \/ getComprtIncludes_Open
    \/ getComprtIncludes_Scan
    \/ getComprtIncludes_EOF

SpecIncludes == InitIncludes /\ [][NextIncludes]_vars

\* unMountChrootFileSystems alone, on any list and any mount table
InitUnmount ==
    /\ mode = "unmount"
    /\ TargetAtStart
    /\ targetAbs = TRUE
    /\ devicesToMount \in SeqsUpTo(DeviceSet, MaxLen)
    /\ pc = "start"
    /\ NoCallYet
    /\ NoMain
    /\ NoLookup
    /\ NoCopy
    /\ NoIncludes

NextUnmount ==
    \/ Direct_Unmount
    \/ unMountChrootFileSystems_Phase1
    \/ unMountChrootFileSystems_Phase1Done
    \/ unMountChrootFileSystems_Phase2
    \/ unMountChrootFileSystems_ReturnNil
    \/ Direct_Done

SpecUnmount == InitUnmount /\ [][NextUnmount]_vars

\* unMountChrootFileSystems on one device whose mount point carries a stack
\* of binds and stays busy
InitStuck ==
    /\ mode = "stuck"
    /\ targetExists = TRUE
    /\ targetAbs = TRUE
    /\ devicesToMount \in {<<d>> : d \in DeviceSet}
    /\ pre \in {[ZeroTable EXCEPT ![devicesToMount[1]] = k] : k \in 0..MaxStack}
    /\ dirs = {"/sys", "/dev"} \cup {d \in DeviceSet : pre[d] > 0}
    /\ pc = "start"
    /\ NoCallYet
    /\ NoMain
    /\ NoLookup
    /\ NoCopy
    /\ NoIncludes

SpecUnmountStuck == InitStuck /\ [][NextUnmount]_vars

\* another process detaches the topmost mount of a mount point under target
\* while unMountChrootFileSystems is at work (an operator's umount, a lazy
\* unmount that completes): the next syscall.Unmount of that mount point
\* finds no mount
Other_Unmount ==
    /\ pc \in {"umount1", "umount2"}
    /\ faults < MaxFaults
    /\ \E d \in DeviceSet :
          /\ Mounted(d)
          /\ own' = OwnAfterUnmount(d)
          /\ pre' = PreAfterUnmount(d)
    /\ faults' = faults + 1
    /\ UNCHANGED <<inputVars, fileVars, mainVars, callerVars, locateVars, procVars,
                   mountVars, umountVars, dirs, devicesToMount, caller, errs,
                   exitErr, pc>>

NextUnmountShared ==
    \/ Direct_Unmount
    \/ unMountChrootFileSystems_Phase1
    \/ unMountChrootFileSystems_Phase1Done
    \/ unMountChrootFileSystems_Phase2
    \/ unMountChrootFileSystems_ReturnNil
    \/ Direct_Done
    \/ Other_Unmount

\* unMountChrootFileSystems on a mount table that other processes change
SpecUnmountShared == InitUnmount /\ [][NextUnmountShared]_vars

\* ------------------------------------------------------------------- main
\* everything Chroot and the exit closure work on
chrootVars == <<procVars, tableVars, mountVars, umountVars, devicesToMount,
                caller, errs, exitErr>>

\* the value of the flag --alias of the create command: noAlias by default
AliasFlag(args) ==
    IF args[1] # "create" THEN ""
    ELSE IF Len(args) > 1 THEN "someAlias"
    ELSE noAlias

\* pconfs.parseCmdArgs(): the Action of the command panics when TARGET does
\* not exist, and records the command otherwise
main_ParseCmdArgs ==
    /\ pc = "main"
    /\ IF targetExists
       THEN /\ command' = osArgs[1]
            /\ alias' = AliasFlag(osArgs)
            /\ panic' = panic
            /\ pc' = "checkUid"
       ELSE /\ panic' = "ErrNotExist"
            /\ pc' = "panicked"
            /\ UNCHANGED <<command, alias>>
    /\ UNCHANGED <<inputVars, fileVars, callerVars, locateVars, chrootVars, faults,
                   uid, osArgs, effects, loginName>>

\* mutant: every user may go on
MayRun_Anyone(u) == TRUE

\* "user.Uid != strconv.Itoa(rootUid)" sends every other user to log.Panic
MayRun(u) == Itoa(u) = Itoa(rootUid)

\* user.Current() and the test of its Uid
main_CheckUid ==
    /\ pc = "checkUid"
    /\ \E currentErr \in (IF faults < MaxFaults THEN BOOLEAN ELSE {FALSE}) :
          IF currentErr
          THEN /\ panic' = "user.Current"
               /\ pc' = "panicked"
               /\ faults' = faults + 1
          ELSE /\ panic' = IF MayRun(uid) THEN panic ELSE MustBeRoot
               /\ pc' = IF MayRun(uid) THEN "switch" ELSE "panicked"
               /\ faults' = faults
    /\ UNCHANGED <<inputVars, fileVars, callerVars, locateVars, chrootVars,
                   uid, osArgs, command, alias, effects, loginName>>

\* "switch pconfs.command"
main_Switch ==
    /\ pc = "switch"
    /\ pc' = IF command = "chroot" THEN "lookup" ELSE "getProgData"
    /\ UNCHANGED <<inputVars, fileVars, mainVars, callerVars, locateVars, chrootVars,
                   faults>>

\* getProgData: with an alias it clones or pulls the repository of comprt
\* configurations; main panics on its error
main_GetProgData ==
    /\ pc = "getProgData"
    /\ \E fetchErr \in (IF alias # noAlias /\ faults < MaxFaults THEN BOOLEAN ELSE {FALSE}) :
          /\ effects' = IF alias # noAlias THEN effects \cup {"fetch"} ELSE effects
          /\ panic' = IF fetchErr THEN "getProgData" ELSE panic
          /\ pc' = IF fetchErr THEN "panicked" ELSE "createComprt"
          /\ faults' = IF fetchErr THEN faults + 1 ELSE faults
    /\ UNCHANGED <<inputVars, fileVars, callerVars, locateVars, chrootVars,
                   uid, osArgs, command, alias, loginName>>

\* what createComprt does before Chroot: exec.LookPath("debootstrap"), copy
\* of the comprt config file into target, Start and Wait of debootstrap
PrepareOutcomes == {"ok", "lookPathErr", "copyErr", "startErr", "waitErr"}

PrepareErr(o) == IF o = "copyErr" THEN "ECOPY" ELSE WorkErr(o)

PrepareEffects(o) ==
    IF o = "lookPathErr" THEN {}
    ELSE IF o \in {"copyErr", "startErr"} THEN {"copy"}
    ELSE {"copy", "debootstrap"}

\* "errs = append(errs, err); return" of the first step that fails, or the
\* call of Chroot
createComprt_Prepare ==
    /\ pc = "createComprt"
    /\ \E o \in PrepareOutcomes :
          /\ effects' = effects \cup PrepareEffects(o)
          /\ callerErrs' = IF o = "ok" THEN callerErrs ELSE Append(callerErrs, PrepareErr(o))
          /\ pc' = IF o = "ok" THEN "start" ELSE "returnedEarly"
    /\ UNCHANGED <<inputVars, fileVars, locateVars, chrootVars, faults,
                   reentry, nested, markers, exitCalls,
                   uid, osArgs, command, alias, panic, loginName>>

\* regexp.MustCompile(strconv.Itoa(defaultComprtUid)): the digits of the uid,
\* anywhere in the field
uidRegex == [lit |-> Itoa(defaultComprtUid), anchored |-> FALSE]

\* "var loginNameIndex, uidIndex int = 0, 2"
loginNameIndex == 0
uidIndex == 2

\* runInteractiveChroot calls locateField on target/etc/passwd
runInteractiveChroot_Lookup ==
    /\ pc = "lookup"
    /\ lfMatchIndex' = uidIndex
    /\ lfReturnIndex' = loginNameIndex
    /\ lfMatch' = uidRegex
    /\ pc' = "lfOpen"
    /\ UNCHANGED <<inputVars, fileVars, mainVars, callerVars, chrootVars, faults,
                   lfFile, lfOpens, lfLine, lfOut>>

\* locateField has returned: "if err != nil { errs = append(errs, err);
\* return }", or the field is defaultComprtUsername and Chroot is called
runInteractiveChroot_Located ==
    /\ pc = "lfDone"
    /\ mode \in {"session", "login"}
    /\ IF lfOut.panic
       THEN /\ panic' = "index out of range"
            /\ pc' = "panicked"
            /\ UNCHANGED <<callerErrs, loginName>>
       ELSE IF lfOut.err # Nil
       THEN /\ callerErrs' = Append(callerErrs, lfOut.err)
            /\ pc' = "returnedEarly"
            /\ UNCHANGED <<panic, loginName>>
       ELSE /\ loginName' = lfOut.val
            /\ pc' = "start"
            /\ UNCHANGED <<panic, callerErrs>>
    /\ UNCHANGED <<inputVars, fileVars, locateVars, chrootVars, faults,
                   reentry, nested, markers, exitCalls,
                   uid, osArgs, command, alias, effects>>

\* the command has returned: "if errs != nil { log.Panic(errs) }", else
\* os.Exit(0)
main_Finish ==
    /\ pc \in {"callerDone", "returnedEarly"}
    /\ command # ""
    /\ panic' = IF callerErrs # <<>> THEN "errs" ELSE panic
    /\ pc' = IF callerErrs # <<>> THEN "panicked" ELSE "exit0"
    /\ UNCHANGED <<inputVars, fileVars, callerVars, locateVars, chrootVars, faults,
                   uid, osArgs, command, alias, effects, loginName>>

\* ------------------------------------------------------------ specification
Next ==
    \/ Pair_Mount
    \/ Pair_Unmount
    \/ Pair_Done
    \/ mountChrootFileSystems_Step
    \/ unMountChrootFileSystems_Phase1
    \/ unMountChrootFileSystems_Phase1Done
    \/ unMountChrootFileSystems_Phase2
    \/ unMountChrootFileSystems_ReturnNil
    \/ Chroot_Capture
    \/ Chroot_AfterMount
    \/ Chroot_SysChroot
    \/ Chroot_SysChdir
    \/ Chroot_Deferred
    \/ Chroot_DeferredReturn
    \/ Chroot_Reenter
    \/ Exit_RootChdir
    \/ Exit_SysChroot
    \/ Exit_Chdir
    \/ Exit_Unmount
    \/ Exit_Return
    \/ Caller_ChrootFailed
    \/ Caller_Work
    \/ Caller_Defer
    \/ Caller_Return
    \/ main_ParseCmdArgs
    \/ main_CheckUid
    \/ main_Switch
    \/ main_GetProgData
    \/ createComprt_Prepare
    \/ runInteractiveChroot_Lookup
    \/ locateField_Open
    \/ locateField_Scan
    \/ locateField_EOF
    \/ runInteractiveChroot_Located
    \/ main_Finish

Spec == Init /\ [][Next]_vars

\* ------------------------------------ the chroot command after a create
\* lines debootstrap and the comprt config script can have left in
\* target/etc/passwd: "root:x:0", "early:x:11224", "late:x:12240",
\* "user:x:1000", "other:x:1224"
PasswdLines ==
    { PasswdLine("root", rootUid), PasswdLine("early", 11224),
      PasswdLine("late", 12240), PasswdLine("user", 1000),
      PasswdLine("other", defaultComprtUid) }

\* useradd refuses a uid that a line of the file holds already
UidTaken(file) ==
    \E i \in 1..Len(file) : Split(file[i])[uidIndex + 1] = Itoa(defaultComprtUid)

\* the end of createComprt: "if alias == noAlias", groupadd and useradd
\* --uid defaultComprtUid add the default comprt user to the passwd file of
\* the compartment; the chroot command that is run next, by root, on this
\* target comes to runInteractiveChroot
createComprt_AddUser ==
    /\ pc = "addUser"
    /\ IF alias # noAlias
       THEN /\ pc' = "lookup"
            /\ UNCHANGED <<lfFile, callerErrs>>
       ELSE IF UidTaken(lfFile)
       THEN /\ callerErrs' = Append(callerErrs, "EWAIT")
            /\ pc' = "createFailed"
            /\ UNCHANGED lfFile
       ELSE /\ lfFile' = Append(lfFile, DefaultUserLine)
            /\ pc' = "lookup"
            /\ UNCHANGED callerErrs
    /\ UNCHANGED <<inputVars, fileVars, mainVars, chrootVars, faults,
                   reentry, nested, markers, exitCalls,
                   lfOpens, lfMatchIndex, lfReturnIndex, lfMatch, lfLine, lfOut>>

\* the rest of runInteractiveChroot, told by its outcome alone: Chroot fails,
\* or one of exec.LookPath, Start and Wait of su does, or the login shell
\* of loginName has run
runInteractiveChroot_Session ==
    /\ pc = "start"
    /\ mode = "login"
    /\ \E o \in WorkOutcomes \cup {"chrootErr"} :
          /\ effects' = IF CommandRan(o) THEN effects \cup {"su"} ELSE effects
          /\ callerErrs' = IF o = "ok" THEN callerErrs
                           ELSE IF o = "chrootErr" THEN Append(callerErrs, "ECHROOT")
                           ELSE Append(callerErrs, WorkErr(o))
          /\ pc' = "callerDone"
    /\ UNCHANGED <<inputVars, fileVars, locateVars, chrootVars, faults,
                   reentry, nested, markers, exitCalls,
                   uid, osArgs, command, alias, panic, loginName>>

\* alias is the one the compartment was created with
InitLogin ==
    /\ mode = "login"
    /\ NoTarget
    /\ pc = "addUser"
    /\ NoCallYet
    /\ uid = rootUid
    /\ osArgs = <<"chroot">>
    /\ command = "chroot"
    /\ alias \in {noAlias, "someAlias"}
    /\ panic = ""
    /\ effects = {}
    /\ loginName = <<>>
    /\ lfFile \in SeqsUpTo(PasswdLines, MaxLines)
    /\ lfOpens \in BOOLEAN
    /\ lfMatchIndex = 0
    /\ lfReturnIndex = 0
    /\ lfMatch = [lit |-> <<>>, anchored |-> FALSE]
    /\ lfLine = 0
    /\ lfOut = NotReturned
    /\ NoCopy
    /\ NoIncludes

NextLogin ==
    \/ createComprt_AddUser
    \/ runInteractiveChroot_Lookup
    \/ locateField_Open
    \/ locateField_Scan
    \/ locateField_EOF
    \/ runInteractiveChroot_Located
    \/ runInteractiveChroot_Session

SpecLogin == InitLogin /\ [][NextLogin]_vars




\* ================================================================ claims
\* errors of the three restore calls of the exit closure
RestoreErrors == {"EFCHDIR", "ECHROOT", "ECHDIR"}

\* the errors of the attempts of phase ph made on device d, in order
ErrsOn(d, ph) ==
    LET T(a) == a.dev = d /\ a.phase = ph
        sel == SelectSeq(attempts, T)
    IN  [i \in 1..Len(sel) |-> sel[i].err]

RECURSIVE FirstOccurrences(_, _)
FirstOccurrences(s, seen) ==
    IF s = <<>> THEN <<>>
    ELSE IF Head(s) \in seen THEN FirstOccurrences(Tail(s), seen)
    ELSE <<Head(s)>> \o FirstOccurrences(Tail(s), seen \cup {Head(s)})

\* the devices in the order of their first unmount attempt
AttemptOrder ==
    FirstOccurrences([i \in 1..Len(attempts) |-> attempts[i].dev], {})

NoDuplicates(s) == \A i, j \in 1..Len(s) : s[i] = s[j] => i = j

Count(s, d) == Cardinality({i \in 1..Len(s) : s[i] = d})

\* C1: round trip. When Chroot(target) succeeded and the exit closure that it
\* returned has run (none of its three restore calls was made to fail), the
\* root directory and the working directory of the process are the ones it
\* had before Chroot was called.
C1_RoundTrip ==
    (pc = "exited" /\ exitErr \notin RestoreErrors)
        => (procRoot = "hostRoot" /\ cwd = cwd0)

C1_Witness ==
    pc = "exited" /\ exitErr = Nil /\ procRoot = "hostRoot" /\ cwd = cwd0

\* C2 (as claimed): whenever Chroot returns an error, none of its devices is
\* still bound under target. Stated for the runs in which no unmount of the
\* unwind was made to fail, so that a mount left behind is the doing of the
\* code alone.
C2_NoDanglingMounts ==
    (pc = "entryFailed" /\ \A k \in 1..Len(attempts) : ~attempts[k].fault)
        => own = ZeroTable

\* C3 (as claimed): whenever Chroot returns an error, the root directory of
\* the process is the one it had before the call.
C3_NeverStuckInWrongRoot ==
    pc = "entryFailed" => procRoot = "hostRoot"

\* C4: when unMountChrootFileSystems returns an error inside the exit
\* closure, the closure returns that error, and the root directory and the
\* working directory are already restored.
C4_RestoreBeforeUnmountError ==
    (pc = "exited" /\ caller = "exit" /\ uErr # Nil)
        => (procRoot = "hostRoot" /\ cwd = cwd0 /\ exitErr = uErr)

C4_Witness ==
    pc = "exited" /\ caller = "exit" /\ uErr # Nil /\ exitErr = uErr
        /\ procRoot = "hostRoot" /\ \E d \in DeviceSet : own[d] > 0

\* C5 (as claimed): unMountChrootFileSystems makes a bounded number of
\* attempts whatever the unmount results are: at most two per device in each
\* of its two loops, the bound its retries counters are written for.
C5_BoundedAttempts ==
    Len(attempts) <= 4 * Len(uList)

\* C6 (as claimed): a device whose unmount failed on the first attempt and
\* again on the retry is left for the backlog phase: the first loop makes no
\* further attempt on it.
C6_DeferredAfterSecondFailure ==
    \A k \in 1..Len(attempts) - 1 :
        (attempts[k].phase = 1 /\ attempts[k].retries = 1 /\ attempts[k].err # Nil)
            => ~(attempts[k + 1].phase = 1 /\ attempts[k + 1].idx = attempts[k].idx)

\* C7: a device whose unmount is busy on the first attempt and succeeds on
\* the second is never put in the backlog, and when every device was
\* unmounted on its first or its second attempt unMountChrootFileSystems
\* returns nil.
C7_BusyThenSuccess ==
    /\ \A d \in DeviceSet :
          ErrsOn(d, 1) = <<EBUSY, Nil>>
              => ~(\E i \in 1..Len(fileSystemsUnmountBacklog) :
                      fileSystemsUnmountBacklog[i] = d)
    /\ (/\ pc = "uret"
        /\ \A i \in 1..Len(uList) :
              ErrsOn(uList[i], 1) \in {<<Nil>>, <<EBUSY, Nil>>})
          => (uErr = Nil /\ fileSystemsUnmountBacklog = <<>>)

C7_Witness ==
    /\ pc = "uret"
    /\ uErr = Nil
    /\ \E d \in DeviceSet : ErrsOn(d, 1) = <<EBUSY, Nil>>
    /\ \A i \in 1..Len(uList) : ErrsOn(uList[i], 1) \in {<<Nil>>, <<EBUSY, Nil>>}

\* C8 (as claimed): when mountChrootFileSystems(D, target) succeeds it returns
\* D, and when the following unMountChrootFileSystems on that list returns
\* nil, every bind is gone and the mounts under target are those that were
\* there before the pair.
C8_MountUnmountSymmetry ==
    /\ (mode = "pair" /\ pc = "mountRet" /\ mErr = Nil)
          => fileSystemsMounted = devicesToMount
    /\ (mode = "pair" /\ pc = "pairDone" /\ mErr = Nil /\ uErr = Nil)
          => (own = ZeroTable /\ pre = pre0)

\* C9: when the turn of the k-th device fails, mountChrootFileSystems returns
\* the first k-1 devices in order and has bound these and no other, and once
\* unMountChrootFileSystems on the returned list has returned nil none of
\* them is bound under target.
C9_PartialBindRollback ==
    /\ (pc = "mountRet" /\ mErr # Nil)
          => /\ fileSystemsMounted = SubSeq(devicesToMount, 1, mIdx - 1)
             /\ \A d \in DeviceSet : own[d] = Count(fileSystemsMounted, d)
    /\ (mode = "pair" /\ pc = "pairDone" /\ mErr # Nil /\ uErr = Nil)
          => own = ZeroTable

C9_Witness ==
    /\ mode = "pair" /\ pc = "pairDone" /\ mErr # Nil /\ uErr = Nil
    /\ mIdx = 2
    /\ Len(attempts) >= 1
    /\ own = ZeroTable

\* C10: the devices get their first unmount attempt in the reverse of the
\* order in which they were mounted: no device is attempted before every
\* device mounted after it.
C10_ReverseOrderUnmount ==
    NoDuplicates(mountLog)
        => AttemptOrder = SubSeq(reverse(mountLog), 1, Len(AttemptOrder))

C10_Witness ==
    /\ Len(mountLog) >= 3
    /\ NoDuplicates(mountLog)
    /\ Len(AttemptOrder) >= 3

\* C11 (as claimed): at most one session is open in a process. A Chroot made
\* while a session is open is rejected with an error, makes no bind and
\* leaves the root directory of the process alone.
C11_SingleSession ==
    reentry # "none" => (reentry = "failed" /\ nested = 0 /\ procRoot # "nestedRoot")
\* the direct call is made on devices whose mount points exist and carry no
\* mount, and no unmount was made to fail
AlreadyUnmounted ==
    /\ mode = "unmount"
    /\ pc # "start"
    /\ \A i \in 1..Len(D0) : D0[i] \in dirs0 /\ pre0[D0[i]] = 0
    /\ \A k \in 1..Len(attempts) : ~attempts[k].fault

\* C12: unMountChrootFileSystems called on devices none of which is a mount
\* point skips every one of them: the mount table stays as it was, one
\* attempt is made per device, nothing is put in the backlog, and the call
\* returns nil.
C12_IdempotentUnmount ==
    AlreadyUnmounted
        => /\ own = ZeroTable /\ pre = pre0
           /\ fileSystemsUnmountBacklog = <<>>
           /\ \A k \in 1..Len(attempts) : attempts[k].err = EINVAL
           /\ pc = "directDone" => (uErr = Nil /\ Len(attempts) = Len(D0))

C12_Witness ==
    /\ AlreadyUnmounted
    /\ pc = "directDone"
    /\ Len(D0) = 2
    /\ Len(attempts) = 2
    /\ uErr = Nil
\* the binds in place are those of the first n devices of the list
BoundPrefix(n) ==
    \A d \in DeviceSet : own[d] = Count(SubSeq(D0, 1, n), d)

\* C13: at every instant the devices bound by the run are a prefix of the
\* device list in mount order: binding extends the prefix by its next
\* device, unmounting shortens it from its end, and no device stays bound
\* while one mounted before it is already released.
C13_MountRecordPrefix ==
    \E n \in 0..Len(D0) : BoundPrefix(n)

C13_Witness ==
    /\ mode = "session"
    /\ caller = "exit"
    /\ pc = "umount1"
    /\ BoundPrefix(2)
    /\ \E k \in 1..Len(attempts) : attempts[k].err = EBUSY
\* no call of Chroot or of the exit closure is in progress and the process
\* is not in a session: before Chroot, once Chroot has returned an error,
\* once exit has returned
Outside == pc \in {"start", "entryFailed", "exited", "callerDone"}

\* C14 (as claimed): outside a session no device of the session is bound
\* under target. Stated for the runs in which no unmount and none of the
\* restore calls of exit was made to fail, so that a bind left behind is the
\* doing of the code alone.
C14_BoundOnlyInside ==
    (/\ Outside
     /\ mode = "session"
     /\ exitErr \notin RestoreErrors
     /\ \A k \in 1..Len(attempts) : ~attempts[k].fault)
        => own = ZeroTable
\* the caller has returned, and its Chroot had succeeded
ReturnedAfterSession == pc = "callerDone" /\ errs = <<>>

\* C15: once Chroot has returned successfully in createComprt or
\* runInteractiveChroot, exit is called exactly once before the caller
\* returns, whichever of its steps failed, and an error returned by exit is
\* in the errs the caller returns.
C15_GuaranteedRelease ==
    /\ exitCalls <= 1
    /\ ReturnedAfterSession
          => /\ exitCalls = 1
             /\ exitErr # ""
             /\ exitErr # Nil
                   => (callerErrs # <<>> /\ callerErrs[Len(callerErrs)] = exitErr)

C15_Witness ==
    /\ ReturnedAfterSession
    /\ exitCalls = 1
    /\ Len(callerErrs) = 2
    /\ callerErrs[1] = "ELOOKPATH"
    /\ callerErrs[2] = exitErr
\* every canonical device is bound once
AllBound == \A d \in DeviceSet : own[d] = 1

\* C16: when Chroot returns no error, the root directory of the process is
\* target, its working directory is the new root, and the four canonical
\* devices are bound; they were bound in the canonical order, all of them
\* before the root was changed.
C16_EnterChroot ==
    /\ (pc = "inside" /\ reentry = "none")
          => /\ errs = <<>>
             /\ procRoot = "targetRoot"
             /\ cwd = "targetRoot"
             /\ fileSystemsMounted = CanonicalDevices
             /\ AllBound
    /\ (pc = "sysChroot" \/ procRoot = "targetRoot")
          => mountLog = CanonicalDevices
    /\ pc = "sysChroot" => (AllBound /\ procRoot = "hostRoot")

C16_Witness ==
    /\ pc = "inside"
    /\ reentry = "none"
    /\ procRoot = "targetRoot"
    /\ cwd = "targetRoot"
    /\ mountLog = CanonicalDevices
    /\ dirs0 = {}
\* exit has returned and none of its three restore calls failed
ExitRestored ==
    pc \in {"exited", "callerDone"} /\ exitErr # "" /\ exitErr \notin RestoreErrors

\* C17: a file created at /marker during the session is created under
\* target, and once exit has returned (its restore calls did not fail) the
\* /marker of the caller, looked up from the root the process is back in,
\* does not exist.
C17_Isolation ==
    reentry = "none"
        => /\ markers \subseteq {"targetRoot"}
           /\ ExitRestored => procRoot \notin markers

C17_Witness ==
    /\ reentry = "none"
    /\ ExitRestored
    /\ markers = {"targetRoot"}
    /\ procRoot = "hostRoot"
\* the fields of the i-th line of the file
FieldsOf(i) == Split(lfFile[i])

\* the i-th line has a field at matchIndex and the pattern matches it
LineMatches(i) ==
    /\ Len(FieldsOf(i)) > lfMatchIndex
    /\ Matches(FieldsOf(i)[lfMatchIndex + 1])

\* the first line that matches, 0 when none does
FirstMatch ==
    IF \E i \in 1..Len(lfFile) : LineMatches(i)
    THEN CHOOSE i \in 1..Len(lfFile) :
            LineMatches(i) /\ \A j \in 1..(i - 1) : ~LineMatches(j)
    ELSE 0

\* locateField has returned or panicked, on a file that could be opened
Located == mode = "locate" /\ pc = "lfDone" /\ lfOpens

\* C18: locateField reads the file line by line and splits each line on the
\* separator; for the first line whose field at matchIndex matches the
\* pattern (and which has a field at returnIndex) it returns that line's
\* field at returnIndex and a nil error, and reads no further: a later
\* line that matches is never the one returned.
C18_FirstMatchWins ==
    (Located /\ FirstMatch # 0 /\ lfReturnIndex < Len(FieldsOf(FirstMatch)))
        => /\ lfOut = [val |-> FieldsOf(FirstMatch)[lfReturnIndex + 1],
                        err |-> Nil, panic |-> FALSE]
           /\ lfLine = FirstMatch

C18_Witness ==
    /\ Located
    /\ FirstMatch = 1
    /\ Len(lfFile) = 2
    /\ LineMatches(2)
    /\ lfMatchIndex = 1
    /\ lfReturnIndex = 0
    /\ lfOut.val = <<"b">>
    /\ FieldsOf(2)[1] = <<"a">>

\* C19: when the file can be read and no line matches, locateField returns
\* the empty string and a nil error, after reading every line.
C19_NoMatchIsEmpty ==
    (Located /\ FirstMatch = 0)
        => (lfOut = [val |-> <<>>, err |-> Nil, panic |-> FALSE] /\ lfLine = Len(lfFile))

C19_Witness ==
    /\ Located
    /\ FirstMatch = 0
    /\ Len(lfFile) = 2
    /\ lfOut.err = Nil
    /\ \E i \in 1..2 : Len(FieldsOf(i)) <= lfMatchIndex
    /\ \E i \in 1..2 : Len(FieldsOf(i)) > lfMatchIndex

\* C20 (as claimed): locateField never crashes: a line with fewer fields
\* than matchIndex or returnIndex need is skipped and the lookup goes on
\* with the lines after it; and a file that cannot be opened gives the
\* empty string and a non-nil error.
C20_ShortLinesSkipped ==
    (mode = "locate" /\ pc = "lfDone")
        => /\ ~lfOut.panic
           /\ ~lfOpens => (lfOut.val = <<>> /\ lfOut.err # Nil)
\* copy has returned
Copied == mode = "copy" /\ pc = "cpDone"

\* C21 (as claimed): when dest already exists, copy(src, dest) returns an
\* error that is EEXIST and leaves the content of dest unchanged.
C21_NeverOverwrites_AsClaimed ==
    (Copied /\ cpDest0.exists) => (cpErr = "EEXIST" /\ cpDest = cpDest0)

\* C21 (amended): when dest already exists, copy(src, dest) never changes
\* dest and returns an error; the error is EEXIST when src could be opened,
\* and the error of opening src otherwise.
C21_NeverOverwrites ==
    (mode = "copy" /\ cpDest0.exists)
        => /\ cpDest = cpDest0
           /\ Copied => cpErr = (IF cpSrc0.exists THEN "EEXIST" ELSE "ENOENT")

C21_Witness ==
    /\ Copied
    /\ cpDest0 = File(<<"h">>)
    /\ cpSrc0 = File(<<"t", "t">>)
    /\ cpErr = "EEXIST"
    /\ cpDest = cpDest0

\* C22: when dest does not exist and src can be read (no read or write of
\* the copy fails), copy(src, dest) returns nil, the content of dest is the
\* content of src, and src is unchanged.
C22_CopyCreatesDest ==
    (Copied /\ ~cpDest0.exists /\ cpSrc0.exists /\ faults = 0)
        => (cpErr = Nil /\ cpDest = cpSrc0 /\ cpSrc = cpSrc0)

C22_Witness ==
    /\ Copied
    /\ ~cpDest0.exists
    /\ cpSrc0 = File(<<"h", "t">>)
    /\ cpErr = Nil
    /\ cpDest = cpSrc0
\* strings.Join(lines, "\n")
RECURSIVE Join(_)
Join(lines) ==
    IF lines = <<>> THEN <<>>
    ELSE IF Len(lines) = 1 THEN lines[1]
    ELSE lines[1] \o <<LF>> \o Join(Tail(lines))

\* what getComprtIncludes has added to includePkgs
Added == SubSeq(includePkgs, Len(includePkgs0) + 1, Len(includePkgs))

\* getComprtIncludes has returned
Included == mode = "includes" /\ pc = "giDone"

\* the file without the line feed that ends it, if there is one
DropFinalLF(data) ==
    IF Len(data) > 0 /\ data[Len(data)] = LF THEN SubSeq(data, 1, Len(data) - 1)
    ELSE data

\* the i-th byte of data is a carriage return that ends a line
LineEndCR(data, i) ==
    data[i] = CR /\ (i = Len(data) \/ data[i + 1] = LF)

\* the file without its final line feed and without the carriage returns
\* that end its lines
WithoutTerminators(data) ==
    LET d == DropFinalLF(data)
        T(i) == ~LineEndCR(d, i)
        keep == {i \in 1..Len(d) : T(i)}
        nth(k) == CHOOSE i \in keep : Cardinality({j \in keep : j < i}) = k - 1
    IN  [k \in 1..Cardinality(keep) |-> d[nth(k)]]

\* C23 (as claimed): getComprtIncludes appends the lines of the includes
\* file to includePkgs in file order, so that joining what it added with
\* newlines reproduces the file; a file that cannot be opened gives nil and
\* leaves includePkgs unchanged.
C23_IncludesRoundTrip_AsClaimed ==
    /\ (Included /\ giOpens /\ faults = 0)
          => (giErr = Nil /\ Join(Added) = giFile)
    /\ (Included /\ ~giOpens)
          => (giErr = Nil /\ includePkgs = includePkgs0)

\* C23 (amended): getComprtIncludes keeps what includePkgs held and appends
\* the lines of the file in file order, each without its line terminator
\* (line feed, with the carriage return before it): joining what it added
\* with newlines gives the file without its final line feed and without
\* the carriage returns that end its lines, which is the file itself when
\* the file has no carriage return and does not end in a line feed. A file
\* that cannot be opened gives nil and leaves includePkgs unchanged.
C23_IncludesRoundTrip ==
    /\ mode = "includes"
          => SubSeq(includePkgs, 1, Len(includePkgs0)) = includePkgs0
    /\ (Included /\ giOpens /\ faults = 0)
          => /\ giErr = Nil
             /\ Join(Added) = WithoutTerminators(giFile)
             /\ \A k \in 1..Len(Added) : \A i \in 1..Len(Added[k]) : Added[k][i] # LF
             /\ WithoutTerminators(giFile) = giFile
                   => Join(Added) = giFile
    /\ (Included /\ ~giOpens)
          => (giErr = Nil /\ includePkgs = includePkgs0)

C23_Witness ==
    /\ Included
    /\ giOpens
    /\ faults = 0
    /\ giFile = <<"p", LF, "p">>
    /\ includePkgs0 # <<>>
    /\ Added = << <<"p">>, <<"p">> >>
\* C24: Chroot on a target that does not exist returns an error and has
\* changed nothing: at no moment of the call is a device bound or a
\* directory made, no unmount is attempted, and the root directory and the
\* working directory of the process stay as they were.
C24_MissingTargetRejected ==
    (mode = "session" /\ ~targetExists)
        => /\ own = ZeroTable /\ pre = pre0 /\ dirs = dirs0
           /\ mountLog = <<>> /\ attempts = <<>>
           /\ procRoot = "hostRoot" /\ cwd = cwd0
           /\ pc \notin {"sysChroot", "sysChdir", "inside"}
           /\ pc \in {"entryFailed", "callerDone"} => (errs # <<>> /\ ~rootOpen)

C24_Witness ==
    /\ mode = "session"
    /\ ~targetExists
    /\ pc = "entryFailed"
    /\ errs = <<"EMKDIR">>
    /\ dirs = {}

\* C25: for a compartment created by createComprt with no alias, the login
\* shell that runInteractiveChroot starts is the one of the default comprt
\* user: the name handed to su is the name useradd gave to uid 1224
C25_LoginAsDefaultUser ==
    (mode = "login" /\ alias = noAlias /\ "su" \in effects)
        => loginName = defaultComprtUserName

\* C26 (as claimed): run by a user whose uid is not 0, main panics with the
\* message "must be ran as root"
C26_MustBeRoot_AsClaimed ==
    (osArgs # <<>> /\ uid # rootUid /\ pc = "panicked") => panic = MustBeRoot

\* C26: run by a user whose uid is not 0, main goes no further than the test
\* of the uid: nothing is fetched, copied, spawned or bound, and neither the
\* root nor the working directory changes; its panic carries the message
\* "must be ran as root" whenever parseCmdArgs and user.Current have returned
\* without an error of their own
C26_MustBeRoot ==
    (osArgs # <<>> /\ uid # rootUid)
        => /\ pc \in {"main", "checkUid", "panicked"}
           /\ effects = {} /\ markers = {} /\ loginName = <<>>
           /\ mountLog = <<>> /\ attempts = <<>>
           /\ own = ZeroTable /\ pre = pre0 /\ dirs = dirs0
           /\ procRoot = "hostRoot" /\ cwd = cwd0
           /\ (pc = "panicked" /\ targetExists /\ faults = 0) => panic = MustBeRoot

C26_Witness ==
    /\ osArgs # <<>>
    /\ uid # rootUid
    /\ pc = "panicked"
    /\ panic = MustBeRoot

\* C27: the exit closure makes its restore calls in the order root.Chdir,
\* syscall.Chroot("."), os.Chdir(returnDir), each after the one before it has
\* succeeded, and calls unMountChrootFileSystems only after all three: no
\* unmount is attempted before, and when a restore call fails the closure
\* returns that error without any attempt.
C27_RestoreThenUnmount ==
    mode = "session"
        => /\ pc \in {"exitCall", "exitChroot", "exitChdir", "exitUnmount"}
                  => (attempts = <<>> /\ caller # "exit" /\ exitErr = "")
           /\ pc \in {"exitChroot", "exitChdir"} => cwd = root
           /\ pc \in {"exitChdir", "exitUnmount"} => procRoot = "hostRoot"
           /\ (pc = "exitUnmount" \/ caller = "exit")
                  => (procRoot = "hostRoot" /\ cwd = cwd0 /\ exitErr \notin RestoreErrors)
           /\ (pc = "exited" /\ exitErr \in RestoreErrors)
                  => (attempts = <<>> /\ caller # "exit")
           /\ (pc = "exited" /\ (procRoot # "hostRoot" \/ cwd # cwd0))
                  => exitErr \in RestoreErrors

\* exit has made an unmount attempt, out of the chroot
C27_Witness ==
    /\ mode = "session"
    /\ caller = "exit"
    /\ attempts # <<>>
    /\ procRoot = "hostRoot"
    /\ cwd = cwd0

\* the second attempts of the first loop on device d that failed with an
\* error other than EINVAL
SecondFailures(d) ==
    {k \in 1..Len(attempts) :
        /\ attempts[k].dev = d
        /\ attempts[k].phase = 1
        /\ attempts[k].retries = 1
        /\ attempts[k].err \notin {Nil, EINVAL}}

\* C28 (as claimed): an unmount that reports EINVAL, on whichever attempt, is
\* taken as done: it puts no device in the backlog (a device is in the
\* backlog once for each second attempt that failed otherwise) and it is not
\* the attempt that makes unMountChrootFileSystems return an error.
C28_InvalidIsClean ==
    /\ \A d \in DeviceSet :
          Count(fileSystemsUnmountBacklog, d) <= Cardinality(SecondFailures(d))
    /\ (attempts # <<>> /\ attempts[Len(attempts)].err = EINVAL) => uErr = Nil

\* C29 (as claimed): in the first loop a device whose second attempt failed,
\* for whatever reason, is in the backlog and holds the loop no longer: the
\* attempt that follows is the first attempt on the next device of the list,
\* and when the loop is over every device of the list has had its attempts.
C29_StuckDeviceDoesNotBlock ==
    /\ \A k \in 1..Len(attempts) - 1 :
          (/\ attempts[k].phase = 1
           /\ attempts[k].retries = 1
           /\ attempts[k].err # Nil
           /\ attempts[k].idx < Len(uList))
              => /\ Count(fileSystemsUnmountBacklog, attempts[k].dev) > 0
                 /\ attempts[k + 1].phase = 1
                 /\ attempts[k + 1].idx = attempts[k].idx + 1
                 /\ attempts[k + 1].retries = 0
    /\ pc = "umount2"
          => \A i \in 1..Len(uList) :
                \E k \in 1..Len(attempts) : attempts[k].phase = 1 /\ attempts[k].idx = i

\* an unmount call is going through one of its two loops
InLoops == pc \in {"umount1", "umount2"}

\* C30 (as claimed): an unmount error that is neither EBUSY nor EINVAL ends
\* unMountChrootFileSystems at once: it is the last attempt made, and the
\* error returned.
C30_OtherErrorIsFatal_AsClaimed ==
    \A k \in 1..Len(attempts) :
        attempts[k].err = EOTHER
            => (k = Len(attempts) /\ ~InLoops /\ uErr = EOTHER)

\* C30: an unmount error that is neither EBUSY nor EINVAL, met on the first
\* attempt on a device in either loop, ends unMountChrootFileSystems at once:
\* no attempt follows, on this device or on another, and the error is the
\* one returned. (On a second attempt the first loop puts the device in the
\* backlog and the second loop returns "unable to unmount".)
C30_OtherErrorIsFatal ==
    \A k \in 1..Len(attempts) :
        (attempts[k].err = EOTHER /\ attempts[k].retries = 0)
            => (k = Len(attempts) /\ ~InLoops /\ uErr = EOTHER)

\* the call has returned on such an error with devices of its list left
C30_Witness ==
    /\ attempts # <<>>
    /\ attempts[Len(attempts)].err = EOTHER
    /\ attempts[Len(attempts)].retries = 0
    /\ attempts[Len(attempts)].phase = 1
    /\ attempts[Len(attempts)].idx < Len(uList)
    /\ pc \in {"exited", "pairDone", "entryFailed", "callerDone"}
    /\ uErr = EOTHER

\* the attempts made on device d, and those of the second loop among them
AttemptsOn(d) == {k \in 1..Len(attempts) : attempts[k].dev = d}

Phase2AttemptsOn(d) == {k \in AttemptsOn(d) : attempts[k].phase = 2}

\* attempt k is made right after a sleep of secs seconds
SleptBefore(k, secs) ==
    \E i \in 1..Len(sleeps) : sleeps[i].after = k - 1 /\ sleeps[i].secs = secs

\* C31 (as claimed): the second loop makes its attempts after all those of
\* the first, on devices of the backlog only and in the order of the
\* reversed list; it makes one attempt on each, after a sleep of two seconds;
\* so no device has more than three attempts in one call.
C31_BacklogOncePerDevice ==
    /\ \A j, k \in 1..Len(attempts) :
          (j < k /\ attempts[j].phase = 2) => attempts[k].phase = 2
    /\ \A k \in 1..Len(attempts) :
          attempts[k].phase = 2
              => /\ Count(fileSystemsUnmountBacklog, attempts[k].dev) > 0
                 /\ SleptBefore(k, Phase2Sleep)
    /\ \A i, j \in 1..Len(fileSystemsUnmountBacklog) :
          i < j => \E m, n \in 1..Len(uList) :
                      /\ m < n
                      /\ uList[m] = fileSystemsUnmountBacklog[i]
                      /\ uList[n] = fileSystemsUnmountBacklog[j]
    /\ \A d \in DeviceSet :
          /\ Cardinality(Phase2AttemptsOn(d)) <= 1
          /\ Cardinality(AttemptsOn(d)) <= 3
\* the sleeps of a given length the call has made on device d
SleepsOn(d, secs) ==
    {i \in 1..Len(sleeps) : sleeps[i].dev = d /\ sleeps[i].secs = secs}

\* C32 (as claimed): a device is waited on at most twice in one call of
\* unMountChrootFileSystems: the short delay is made in the first loop only and
\* at most once for the device, the long delay in the second loop only and at
\* most once for the device, and the long delay never comes before the short
\* one.
C32_ShortThenLongOnce ==
    /\ \A i \in 1..Len(sleeps) :
          \/ sleeps[i].secs = Phase1Sleep /\ sleeps[i].phase = 1
          \/ sleeps[i].secs = Phase2Sleep /\ sleeps[i].phase = 2
    /\ \A d \in DeviceSet :
          /\ Cardinality(SleepsOn(d, Phase1Sleep)) <= 1
          /\ Cardinality(SleepsOn(d, Phase2Sleep)) <= 1
          /\ \A j \in SleepsOn(d, Phase2Sleep) :
                \E i \in SleepsOn(d, Phase1Sleep) : i < j

\* the devices mountChrootFileSystems has taken up so far
TakenUp == {D0[i] : i \in 1..(IF mIdx <= Len(D0) THEN mIdx ELSE Len(D0))}

\* C33: mountChrootFileSystems makes a mount-point directory only for a
\* device it has taken up and whose directory was missing, and every directory
\* found at start is still there; a device is bound only when its mount point
\* exists; and when os.Mkdir fails the call ends there: the device whose
\* directory could not be made was missing, is not bound, and no device after
\* it is bound.
C33_MkdirOnlyWhenMissing ==
    /\ dirs0 \subseteq dirs
    /\ (dirs \ dirs0) \subseteq TakenUp
    /\ \A d \in DeviceSet : own[d] > 0 => d \in dirs
    /\ \A i \in 1..Len(mountLog) : mountLog[i] \in dirs
    /\ mErr = "EMKDIR"
          => /\ pc # "mount"
             /\ mIdx <= Len(D0)
             /\ D0[mIdx] \notin dirs
             /\ mountLog = SubSeq(D0, 1, mIdx - 1)

\* a directory found at start was bound as it was, and the directory of the
\* next device could not be made
C33_Witness ==
    /\ pc = "mountRet"
    /\ mErr = "EMKDIR"
    /\ mIdx = 2
    /\ D0[1] \in dirs0
    /\ mountLog = <<D0[1]>>
    /\ targetExists

\* C34 (as claimed): the handle on the root directory that Chroot opened is
\* closed whenever Chroot has returned an error and whenever exit() has
\* returned, with an error or without: it is open only from os.Open("/") to
\* the return of the failed Chroot or of exit().
C34_RootReleased ==
    pc \in {"start", "entryFailed", "exited", "callerDone"} => ~rootOpen

\* C35 (as claimed): when unMountChrootFileSystems returns nil, none of the
\* devices of its list is mounted under target any more.
C35_NilMeansUnmounted ==
    (pc = "uret" /\ uErr = Nil)
        => \A i \in 1..Len(uList) : ~Mounted(uList[i])

\* C36 (as claimed): the login name that runInteractiveChroot resolves is the
\* name field of a line of target/etc/passwd whose uid field is exactly
\* defaultComprtUid; a line whose uid only contains those digits is not
\* selected.
C36_ExactUidSelected ==
    (mode = "login" /\ loginName # <<>>)
        => \E i \in 1..Len(lfFile) :
              /\ Split(lfFile[i])[uidIndex + 1] = Itoa(defaultComprtUid)
              /\ Split(lfFile[i])[loginNameIndex + 1] = loginName

\* C37 (as claimed): when unMountChrootFileSystems has returned, the list its
\* caller passed in is as it was before the call: devicesToMount holds the
\* devices in the order it was built with, and fileSystemsMounted holds the
\* bound devices in the order they were bound.
C37_CallerListKept ==
    pc = "uret"
        => /\ caller \in {"exit", "direct"} => devicesToMount = D0
           /\ caller \in {"unwind", "pair"}
                 => fileSystemsMounted = SubSeq(D0, 1, Len(fileSystemsMounted))

\* the attempts of the first loop on device d that failed
FailedInPhase1(d) ==
    {k \in AttemptsOn(d) : attempts[k].phase = 1 /\ attempts[k].err # Nil}

\* C38 (as claimed): the backlog holds a device no more often than the list
\* passed in does (once, for a list of distinct devices), it holds only
\* devices that had two failed attempts in the first loop, and it is never
\* longer than the list.
C38_BacklogBounded ==
    /\ \A d \in DeviceSet :
          /\ Count(fileSystemsUnmountBacklog, d) <= Count(uList, d)
          /\ Count(fileSystemsUnmountBacklog, d) > 0
                => Cardinality(FailedInPhase1(d)) >= 2
    /\ Len(fileSystemsUnmountBacklog) <= Len(uList)

====
